---- MODULE Spec2Model ----
(***************************************************************************)
(* A model of pborman/pty: the message codec (messenger.go), the escape    *)
(* buffer (escape.go) and the shell host with its client attachments       *)
(* (shell.go, the Client of screen.go, the server's attach loop).          *)
(*                                                                         *)
(* The module holds several specifications over one set of variables:      *)
(*   SpecCodec   one MessengerWriter feeding one MessengerReader           *)
(*   SpecWriter  goroutines sharing one MessengerWriter                    *)
(*   SpecEB      the EscapeBuffer of NewShell fed PTY output in chunks     *)
(*   Spec        the shell host: attach, take, exclusive, count, drain     *)
(*   SpecS1      the three sends of the wire format scenario, read back    *)
(*   SpecPartial one framed message arriving in pieces                     *)
(*   SpecSize    ttysize messages and the stored window size               *)
(*   SpecRelay   a forwarder relaying accepted connections (forward.go)    *)
(*   SpecAnymap  an Anymap with its callers and goroutines (anymap.go)     *)
(*   SpecWake    Client.Send and the drain task on the ready channel       *)
(*   SpecChunk   an EscapeBuffer written a stream cut at any positions     *)
(*   SpecElect   primary election and the messages that answer it          *)
(* Each specification leaves the variables of the others at their idle     *)
(* values.                                                                 *)
(***************************************************************************)
EXTENDS Integers, Sequences, FiniteSets, TLC

VARIABLES
    \* ---- codec (SpecCodec) ----
    wire,      \* bytes written to the underlying stream, not yet read
    weof,      \* the underlying stream has been closed by the writer side
    sent,      \* the Send calls made so far, <<kind, payload>> each
    rd,        \* the MessengerReader and the Read call in progress
    \* ---- concurrent writers (SpecWriter) ----
    wmu,       \* holder of MessengerWriter.mu (0: free)
    wcall,     \* per goroutine: the call in progress
    wstream,   \* the underlying stream: <<call id, byte>> per byte
    wcalls,    \* the calls started so far, <<kind, buf>> each
    \* ---- escape buffer (SpecEB) ----
    eb,        \* the EscapeBuffer
    ebrest,    \* PTY output not yet written to the buffer
    ebsrc,     \* the whole PTY output of this run
    \* ---- shell host (Spec) ----
    smu,       \* holder of Shell.mu: 0 (free), a connection (its Take), PtyTask
    cmu,       \* Client.mu of each client is held by that client's Take
    clients,   \* Shell.clients
    pids,      \* Shell.pids: the client of each pid, 0 for no entry
    primary,   \* Client.primary
    buffers,   \* Client.buffers, the mailbox
    ready,     \* Client.ready: token in the channel, closed, field set to nil
    rpc,       \* per connection: where its attach goroutine is
    rtodo,     \* per connection: clients its Take or exclusive has yet to visit
    rcur,      \* per connection: the client its exclusive has just detached
    dpc,       \* per client: where its drain task (Client.runout) is
    closers,   \* per client: Close calls running, by stage
    connClosed,\* per connection: the server has closed it
    detaching, \* per connection: "go s.Detach(client)" not yet run
    alive,     \* which client processes (pids) exist
    ppc,       \* the PTY reader: "read", or "fan" inside its locked section
    ptodo,     \* the PTY reader: clients still to be sent the chunk
    pchunk,    \* the PTY reader: the chunk read
    crashed,   \* the server process has panicked
    used,      \* how many inputs of each kind the run has had
    enq,       \* per client: every item ever put in its mailbox, in order
    written,   \* per client: every write of the drain task, in order
    lastPid,   \* per connection: the pid of its last ttyname (0: none)
    ptyWrite,  \* the last write of keystrokes to the PTY
    countReply,\* the last reply to askCount
    srv,       \* the server's way down: the PTY error path, Shell.Exit, exit
    fwd,       \* the forwarders and the forward messages on their way
    sess,      \* one session name: its directory, its processes, its users
    tty,       \* the window size and the ttysize messages being handled
    relay,     \* the forwarder and its forwarded connections
    amap,      \* an Anymap with its callers and goroutines
    wake,      \* Send calls between their append and their channel send
    elect      \* primary election by messages: flags and messages in flight

codecVars  == <<wire, weof, sent, rd>>
writerVars == <<wmu, wcall, wstream, wcalls>>
ebVars     == <<eb, ebrest, ebsrc>>
shellVars  == <<smu, cmu, clients, pids, primary, buffers, ready, rpc, rtodo,
                rcur, dpc, closers, connClosed, detaching, alive, ppc, ptodo,
                pchunk, crashed, used, enq, written, lastPid, ptyWrite,
                countReply, srv, fwd, sess, tty, relay, amap, wake, elect>>

-----------------------------------------------------------------------------
(* Helpers on byte sequences.                                              *)

Min(a, b) == IF a < b THEN a ELSE b

\* s[a..b] with 0-based half-open Go slice indices: s[a:b]
Slice(s, a, b) == IF b <= a THEN <<>> ELSE SubSeq(s, a + 1, b)

\* bytes.IndexByte: 0-based index of the first b in s, or -1
IndexByte(s, b) ==
    LET hits == {i \in 1..Len(s) : s[i] = b}
    IN  IF hits = {} THEN -1
        ELSE (CHOOSE i \in hits : \A j \in hits : i <= j) - 1

RECURSIVE Concat(_)
Concat(ss) == IF ss = <<>> THEN <<>> ELSE Head(ss) \o Concat(Tail(ss))

IsPrefix(s, t) == Len(s) <= Len(t) /\ SubSeq(t, 1, Len(s)) = s

-----------------------------------------------------------------------------
(* MessengerWriter                                                         *)

\* var oneK: the size of the buffer holding header and copied payload.
\* The repository's test sets it to 8 (messenger_test.go:24).
OneK == 8

\* The underlying writes of MessengerWriter.Write(buf), in order: every NUL
\* ends one write and starts the next one, so it crosses the wire twice.
RECURSIVE WriteRest(_)
WriteRest(buf) ==
    \* buf[0] is a NUL that has been written once already
    LET x == IndexByte(Tail(buf), 0)
    IN  IF x < 0 THEN <<buf>>
        ELSE <<SubSeq(buf, 1, x + 2)>> \o WriteRest(SubSeq(buf, x + 2, Len(buf)))

\* A Write that passes its bytes on as they are.
WriteChunksPlain(buf) == <<buf>>

WriteChunks(buf) ==
    LET x == IndexByte(buf, 0)
    IN  IF x < 0 THEN <<buf>>
        ELSE <<SubSeq(buf, 1, x + 1)>> \o WriteRest(SubSeq(buf, x + 1, Len(buf)))

\* What Write(buf) returns when no underlying write fails: cnt is raised by
\* the length of every underlying write and lowered by one after each write
\* made in the loop, which is every write but the last.
WriteReturn(buf) ==
    LET chunks == WriteChunks(buf)
    IN  Len(Concat(chunks)) - (Len(chunks) - 1)

\* The 6-byte header of a framed message.
Header(kind, count) ==
    << 0, kind % 256,
       (count \div 16777216) % 256, (count \div 65536) % 256,
       (count \div 256) % 256, count % 256 >>

\* The underlying writes of MessengerWriter.Send(kind, buf) for kind # 0.
SendChunks(kind, buf) ==
    LET n == Min(Len(buf), OneK - 6)
    IN  IF Len(buf) > n
        THEN << Header(kind, Len(buf)) \o SubSeq(buf, 1, n),
                SubSeq(buf, n + 1, Len(buf)) >>
        ELSE << Header(kind, Len(buf)) \o buf >>

\* Send delegates to Write for kind 0.
CallChunks(kind, buf) ==
    IF kind = 0 THEN WriteChunks(buf) ELSE SendChunks(kind, buf)

-----------------------------------------------------------------------------
(* MessengerReader                                                         *)

\* NewMessengerReader allocates message with 32768 bytes and fill rounds a
\* larger buffer with 0x1000; the model scales both (8 and 4) so that a
\* payload longer than the buffer is a short sequence.  The mask 0xfff is
\* GrowChunk - 1, and x & (GrowChunk - 1) is x % GrowChunk.
ReaderCap == 8
GrowChunk == 4

\* rd.msg is m.message[0:m.mt] (so m.mt is Len(rd.msg)), rd.cap is
\* cap(m.message), rd.mh is m.mh, rd.err is m.error.  While a Read call is
\* in progress: rd.room is len(buf) still free, rd.cnt the bytes copied,
\* rd.k the fill the call is inside (1, 2, 6, or 7 for the payload) and
\* rd.need its count.  rd.got lists what the reader has delivered: one
\* <<"d", b>> per opaque byte copied to buf, one <<"m", kind, payload>> per
\* callback.  rd.ret is what the last Read call returned, <<cnt, err>>.
NewMessengerReader ==
    [ msg |-> <<>>, cap |-> ReaderCap, mh |-> 0, err |-> "none",
      pc |-> "idle", k |-> 0, need |-> 0, room |-> 0, cnt |-> 0,
      kind |-> 0, count |-> 0, got |-> <<>>, ret |-> <<>>, cbdata |-> FALSE ]

DataEvents(bs) == [i \in 1..Len(bs) |-> <<"d", bs[i]>>]

Return(st, n, e) == [st EXCEPT !.pc = "idle", !.ret = <<n, e>>]

\* The count of a header at m.mh, big-endian.
HeaderCount(st) ==
    st.msg[st.mh + 3] * 16777216 + st.msg[st.mh + 4] * 65536
        + st.msg[st.mh + 5] * 256 + st.msg[st.mh + 6]

\* fill's reallocation for count > cap(m.message):
\*   nm := make([]byte, (count+0x1000)&0xfff)
\*   m.mt = copy(nm, m.message[:m.mt-m.mh]); m.mh = 0; m.message = nm
FillGrow(st, count) ==
    LET size == (count + GrowChunk) % GrowChunk
        keep == Min(size, Len(st.msg) - st.mh)
    IN  [st EXCEPT !.msg = SubSeq(st.msg, 1, keep), !.mh = 0, !.cap = size]

\* fill's compaction for m.mh+count > cap(m.message)
FillCompact(st) ==
    [st EXCEPT !.msg = Slice(st.msg, st.mh, Len(st.msg)), !.mh = 0]

\* A Read that goes on to the message whatever it has copied.
PartialReturnNever(st) == FALSE

\* Read's test at the start of a message: with part of the caller's buffer
\* filled it returns what it has and leaves the message to the next Read.
PartialReturn(st) == st.cnt > 0

RECURSIVE LoopTop(_), FillEnter(_, _, _), FillLoop(_, _, _), FillDone(_, _, _)

\* The top of Read's for loop.
LoopTop(st) ==
    IF st.room = 0 THEN Return(st, st.cnt, "none") ELSE FillEnter(st, 1, 1)

\* fill(count) up to its loop.
FillEnter(st, count, k) ==
    IF count = 0 THEN FillDone(st, k, TRUE)
    ELSE IF st.mh >= Len(st.msg)
    THEN LET s1 == [st EXCEPT !.mh = 0, !.msg = <<>>]
         IN  IF st.err # "none" THEN FillDone(s1, k, FALSE)
             ELSE FillLoop(s1, count, k)
    ELSE FillLoop(st, count, k)

\* One test of fill's loop condition; the loop body runs up to its call of
\* m.r.Read, which is the step UnderlyingRead.
FillLoop(st, count, k) ==
    IF st.err = "none" /\ Len(st.msg) - st.mh < count
    THEN LET s2 == IF count > st.cap THEN FillGrow(st, count)
                   ELSE IF st.mh + count > st.cap THEN FillCompact(st)
                   ELSE st
         IN  [s2 EXCEPT !.pc = "read", !.k = k, !.need = count]
    ELSE FillDone(st, k, Len(st.msg) - st.mh >= count)

\* Read after fill(count) returned ok, for each of its four calls of fill.
FillDone(st, k, ok) ==
    LET mh == st.mh
        mt == Len(st.msg)
    IN
    CASE k = 1 ->
        IF ~ok THEN Return(st, st.cnt, st.err)
        ELSE IF st.msg[mh + 1] # 0
        THEN LET mtc == IF mt - mh > st.room THEN mh + st.room ELSE mt
                 x   == IndexByte(Slice(st.msg, mh, mtc), 0)
             IN  IF x < 0
                 THEN LET n == Min(st.room, mt - mh)
                      IN  Return([st EXCEPT
                                   !.got = @ \o DataEvents(Slice(st.msg, mh, mh + n)),
                                   !.mh = mh + n, !.cnt = @ + n],
                                 st.cnt + n, "none")
                 ELSE FillEnter([st EXCEPT
                                   !.got = @ \o DataEvents(Slice(st.msg, mh, mh + x)),
                                   !.room = @ - x, !.mh = mh + x, !.cnt = @ + x],
                                2, 2)
        ELSE FillEnter(st, 2, 2)
      [] k = 2 ->
        IF ~ok THEN Return(st, st.cnt, st.err)
        ELSE IF st.msg[mh + 2] = 0
        THEN LoopTop([st EXCEPT !.got = Append(@, <<"d", 0>>),
                                !.room = @ - 1, !.cnt = @ + 1, !.mh = mh + 2])
        ELSE IF PartialReturn(st) THEN Return(st, st.cnt, "none")
        ELSE FillEnter(st, 6, 6)
      [] k = 6 ->
        IF ~ok THEN Return(st, st.cnt, st.err)
        ELSE LET count == HeaderCount(st)
             IN  FillEnter([st EXCEPT !.kind = st.msg[mh + 2], !.count = count,
                                      !.mh = mh + 6],
                           count, 7)
      [] OTHER ->
        IF ~ok THEN Return(st, 0, st.err)
        ELSE LoopTop([st EXCEPT
                        !.got = Append(@, <<"m", st.kind,
                                            Slice(st.msg, mh, mh + st.count)>>),
                        !.cbdata = @ \/ st.cnt > 0,
                        !.mh = mh + st.count])

\* m.r.Read(m.message[m.mt:]) returning n bytes of the stream, and the rest
\* of fill's loop body.
ReadBytes(st, bytes) ==
    FillLoop([st EXCEPT !.msg = @ \o bytes, !.pc = "run"], st.need, st.k)

\* m.r.Read returning 0 bytes: with an error (io.EOF), or with none, which
\* fill turns into io.EOF.
ReadNothing(st) ==
    FillLoop([st EXCEPT !.err = "EOF", !.pc = "run"], st.need, st.k)

-----------------------------------------------------------------------------
(* EscapeBuffer (escape.go) with the sequences NewShell registers.         *)

\* Escape sequences of shell.go, as bytes.
scasb   == <<27, 91, 63, 49, 48, 52, 57, 104>>   \* ESC [ ? 1 0 4 9 h
nsbrc   == <<27, 91, 63, 49, 48, 52, 57, 108>>   \* ESC [ ? 1 0 4 9 l
edb0    == <<27, 91, 74>>                        \* ESC [ J
edall   == <<27, 91, 50, 74>>                    \* ESC [ 2 J
edsaved == <<27, 91, 51, 74>>                    \* ESC [ 3 J
home    == <<27, 91, 72>>                        \* ESC [ H
sendSSH == <<27, 91, 122>>                       \* ESC [ z
cls     == nsbrc \o edb0 \o edsaved \o edb0

\* NewEscapeBuffer(n) with n <= 0
DefaultCap == 1048576

\* appendto's "extra := 1024"
AppendExtra == 1024

\* The sequences of NewShell, in the order of its AddSequence calls.
ShellSequences ==
    << [seq |-> sendSSH, cb |-> "sendSSH"],
       [seq |-> scasb,   cb |-> "scasb"],
       [seq |-> nsbrc,   cb |-> "nsbrc"],
       [seq |-> edsaved, cb |-> "edsaved"],
       [seq |-> edall,   cb |-> "edall"] >>

\* e.normal, e.alt, e.partial with cap(e.partial) in pcap, e.inalt,
\* e.sequences.  ncap and acap are cap(e.normal) and cap(e.alt).  stray
\* records that some byte was appended to the buffer that e.inalt did not
\* select at that moment; panic that appendto sliced out of range; nhist
\* and ahist are all the bytes handed to appendto for normal and for alt;
\* calls counts the callbacks invoked.
NewEscapeBuffer(n, seqs) ==
    LET c == IF n <= 0 THEN DefaultCap ELSE n
    IN  [ normal |-> <<>>, alt |-> <<>>, ncap |-> c, acap |-> c,
          partial |-> <<>>, pcap |-> 0, inalt |-> FALSE, seqs |-> seqs,
          stray |-> FALSE, panic |-> FALSE, nhist |-> <<>>, ahist |-> <<>>,
          calls |-> 0 ]

\* The head bytes appendto drops in its default case.
AppendDrop(ol, nl, oc) ==
    LET e0 == IF AppendExtra > oc \div 8 THEN oc \div 8 ELSE AppendExtra
        e1 == IF AppendExtra > oc \div 8 /\ e0 = 0 THEN 1 ELSE e0
    IN  nl + ol - oc + e1

\* appendto fails (slice bounds out of range) when it drops more than old has
AppendPanics(old, new, oc) ==
    /\ Len(new) # 0
    /\ Len(new) < oc
    /\ Len(new) + Len(old) >= oc
    /\ AppendDrop(Len(old), Len(new), oc) > Len(old)

appendto(old, new, oc) ==
    LET nl == Len(new)
        ol == Len(old)
    IN  CASE nl = 0 -> old
          [] nl # 0 /\ nl >= oc -> SubSeq(new, nl - oc + 1, nl)
          [] nl # 0 /\ nl < oc /\ nl + ol < oc -> old \o new
          [] OTHER -> SubSeq(old, AppendDrop(ol, nl, oc) + 1, ol) \o new

\* The closure add of Write: alt is the value e.inalt had when the closure
\* was chosen, at the start of that Write call.
Add(e, alt, buf) ==
    LET strayed == [e EXCEPT !.stray = @ \/ (buf # <<>> /\ alt # e.inalt),
                             !.nhist = IF alt THEN @ ELSE @ \o buf,
                             !.ahist = IF alt THEN @ \o buf ELSE @]
    IN  IF alt
        THEN IF AppendPanics(e.alt, buf, e.acap)
             THEN [strayed EXCEPT !.panic = TRUE]
             ELSE [strayed EXCEPT !.alt = appendto(e.alt, buf, e.acap)]
        ELSE IF AppendPanics(e.normal, buf, e.ncap)
             THEN [strayed EXCEPT !.panic = TRUE]
             ELSE [strayed EXCEPT !.normal = appendto(e.normal, buf, e.ncap)]

\* The callbacks of NewShell's sequences: the buffer after the callback.
\* The two erase callbacks rebuild the buffer with plain appends, which
\* grow the slice when its capacity is smaller.
Callback(e, cb) ==
    CASE cb = "scasb" -> [e EXCEPT !.inalt = TRUE]
      [] cb = "nsbrc" -> [e EXCEPT !.inalt = FALSE]
      [] cb = "edsaved" ->
            IF ~e.inalt
            THEN [e EXCEPT !.normal = nsbrc \o edall,
                           !.ncap = IF @ < Len(nsbrc \o edall)
                                    THEN Len(nsbrc \o edall) ELSE @]
            ELSE e
      [] cb = "edall" ->
            IF e.inalt
            THEN [e EXCEPT !.alt = home \o edall,
                           !.acap = IF @ < Len(home \o edall)
                                    THEN Len(home \o edall) ELSE @]
            ELSE e
      [] OTHER -> e

\* What the callback returns: true means "append the sequence".
CallbackKeeps(cb) == cb = "keep"

\* bytes.IndexAny(buf, e.firstBytes): 0-based, or -1
FirstBytes(e) == {e.seqs[i].seq[1] : i \in 1..Len(e.seqs)}

IndexAny(buf, bytes) ==
    LET hits == {i \in 1..Len(buf) : buf[i] \in bytes}
    IN  IF hits = {} THEN -1
        ELSE (CHOOSE i \in hits : \A j \in hits : i <= j) - 1

\* The first registered sequence that buf starts with (0: none)
FullMatch(e, buf) ==
    LET hits == {i \in 1..Len(e.seqs) :
                    /\ Len(buf) >= Len(e.seqs[i].seq)
                    /\ SubSeq(buf, 1, Len(e.seqs[i].seq)) = e.seqs[i].seq}
    IN  IF hits = {} THEN 0 ELSE CHOOSE i \in hits : \A j \in hits : i <= j

\* No partial match is ever saved.
MaxPartialNone(e, buf) == 0

\* maxPartial: the longest registered sequence buf is a strict prefix of
MaxPartial(e, buf) ==
    LET lens == {Len(e.seqs[i].seq) : i \in
                    {i \in 1..Len(e.seqs) :
                        /\ Len(buf) < Len(e.seqs[i].seq)
                        /\ SubSeq(e.seqs[i].seq, 1, Len(buf)) = buf}}
    IN  IF lens = {} THEN 0 ELSE CHOOSE n \in lens : \A k \in lens : k <= n

RECURSIVE EBWrite(_, _), EBPartialLoop(_, _, _), EBMainLoop(_, _, _)

\* EscapeBuffer.Write(buf)
EBWrite(e, buf) ==
    IF e.seqs = <<>> THEN Add(e, e.inalt, buf)
    ELSE EBPartialLoop(e, buf, e.inalt)

\* Write's first loop: complete a saved partial match from buf by writing
\* the joined bytes with a recursive Write.
EBPartialLoop(e, buf, alt) ==
    IF Len(buf) > 0 /\ Len(e.partial) > 0
    THEN LET pl == Len(e.partial)
             i  == Min(e.pcap - pl, Len(buf))
             ep == e.partial \o SubSeq(buf, 1, i)
         IN  EBPartialLoop(EBWrite([e EXCEPT !.partial = <<>>], ep),
                           SubSeq(buf, i + 1, Len(buf)), alt)
    ELSE IF Len(e.partial) > 0 THEN e
    ELSE EBMainLoop(e, buf, alt)

\* Write's loop labelled Loop.
EBMainLoop(e, buf, alt) ==
    LET x == IndexAny(buf, FirstBytes(e))
    IN  IF x < 0 THEN Add(e, alt, buf)
        ELSE
        LET e1 == [Add(e, alt, SubSeq(buf, 1, x)) EXCEPT !.partial = <<>>]
            b  == SubSeq(buf, x + 1, Len(buf))
            m  == FullMatch(e, b)
        IN  IF m # 0
            THEN LET s  == e.seqs[m]
                     e2 == [Callback(e1, s.cb) EXCEPT !.calls = @ + 1]
                     e3 == IF CallbackKeeps(s.cb) THEN Add(e2, alt, s.seq) ELSE e2
                 IN  EBMainLoop(e3, SubSeq(b, Len(s.seq) + 1, Len(b)), alt)
            ELSE IF MaxPartial(e, b) > 0
            THEN [e1 EXCEPT !.partial = b, !.pcap = MaxPartial(e, b)]
            ELSE EBMainLoop(Add(e1, alt, SubSeq(b, 1, 1)), Tail(b), alt)

\* The opaque data Shell.Attach sends a new client: the clear sequence and
\* the normal buffer, then, in the alternate screen, the enter sequence and
\* the alt buffer.
\* A repaint that forgets the alternate screen.
RepaintNormalOnly(e) == <<cls \o e.normal>>

Repaint(e) ==
    IF e.inalt THEN <<cls \o e.normal, scasb, e.alt>>
    ELSE <<cls \o e.normal>>

-----------------------------------------------------------------------------
(* The shell host: constants.                                              *)

\* messageKind (shell.go)
dataMessage      == 0
ttynameMessage   == 2
startMessage     == 4
countMessage     == 7
askCountMessage  == 8
exclusiveMessage == 9
preemptMessage   == 12
primaryMessage   == 13

\* Connections the server accepts in a run, and pids of client processes.
NConns == 3
NPids  == 2

Conns == 1..NConns
Pids  == 1..NPids

\* The holder of Shell.mu while Shell.runout fans a chunk out.
PtyTask == NConns + 1

\* The names of the forwarders NewForwarder has set up in the server (the
\* variables of config.Forward that are set in the server's environment):
\* "S".  A client may have "U" set as well.
FwdNames == {<<83>>}
ClientFwdNames == {<<83>>, <<85>>}

\* The users that run the client for one session name; server process k
\* is the one user k spawns.
NUsers == 2
Users == 1..NUsers
MaxChecks == 2
MaxExits == 1

\* How many inputs of each kind a run has.
MaxKeys   == 2    \* chunks of keystrokes, over all connections
MaxExcl   == 2    \* exclusive messages
MaxNames  == 2    \* ttyname messages
MaxAsks   == 1    \* askCount messages
MaxOut    == 2    \* chunks of PTY output
MaxHangup == 1    \* connections closed by the peer
MaxDeaths == 1    \* client processes that exit
MaxCloses == 2    \* calls of Client.Close
MaxFwds   == 2    \* forward messages

\* What one read of the PTY returns.
PtyChunks == { <<97>>, scasb \o <<98>> }

\* "\r\nDetached by client <name>\r\n": CR LF D and the name, which the
\* model takes to be the digit of the connection.
Notice(c) == <<13, 10, 68, 48 + c>>

IsNotice(item) ==
    /\ item.kind = dataMessage
    /\ Len(item.data) = 4
    /\ SubSeq(item.data, 1, 3) = <<13, 10, 68>>

-----------------------------------------------------------------------------
(* The variables, and the idle values each specification gives the        *)
(* variables it does not use.                                              *)

vars == <<codecVars, writerVars, ebVars, shellVars>>

\* What the shell host's steps work on, apart from srv and fwd.
hostVars == <<smu, cmu, clients, pids, primary, buffers, ready, rpc, rtodo,
              rcur, dpc, closers, connClosed, detaching, alive, ppc, ptodo,
              pchunk, crashed, used, enq, written, lastPid, ptyWrite,
              countReply, eb>>

IdleCodec ==
    /\ wire = <<>>
    /\ weof = FALSE
    /\ sent = <<>>
    /\ rd = NewMessengerReader

IdleWriter ==
    /\ wmu = 0
    /\ wcall = <<>>
    /\ wstream = <<>>
    /\ wcalls = <<>>

IdleEB ==
    /\ eb = NewEscapeBuffer(0, <<>>)
    /\ ebrest = <<>>
    /\ ebsrc = <<>>

\* The server runs: Shell.exiting is false, Shell.done is open, the PTY has
\* had no read error and the process has not exited.
\* exiting is Shell.exiting, done is "Shell.done is closed", gone is "the
\* process has exited"; epc, etodo and seen are the position of Shell.Exit
\* in its loop over the clients.  failed, exitalt and emark record the
\* clients attached when the PTY read failed, the value of e.inalt when the
\* child exited, and the length of each mailbox history at that moment.
IdleSrv ==
    [exiting |-> FALSE, epc |-> "none", etodo |-> {}, seen |-> {},
     failed |-> {}, done |-> FALSE, gone |-> FALSE, exitalt |-> FALSE,
     emark |-> [c \in Conns |-> 0]]

\* The session directory does not exist, no server process has been
\* started for the name and no user has run the client.  pid and addr are
\* the contents of the two files (the server they name, 0: no file), proc
\* is where each server process is, upc where each user's client is, at
\* the server a user's connection reached, checks and ok record the Check
\* calls of observers (how many, what the last one returned), and deaths
\* counts the servers that have ended.
IdleSess ==
    [dir |-> FALSE, pid |-> 0, addr |-> 0,
     proc |-> [k \in Users |-> "none"],
     upc |-> [u \in Users |-> "none"],
     at |-> [u \in Users |-> 0],
     checks |-> 0, ok |-> FALSE, deaths |-> 0]

\* No forwarder has a remote and no forward message is under way.
\* remote is f.remote of each forwarder and setBy the connection whose
\* forward message set a remote last; errors counts the server messages
\* the forward handler has sent on each connection and unknown the forward
\* messages of each connection that named no forwarder.
IdleFwd ==
    [remote |-> [n \in FwdNames |-> <<>>], setBy |-> 0,
     errors |-> [c \in Conns |-> 0], unknown |-> [c \in Conns |-> 0]]

\* The window size: Shell.rows and Shell.cols (0 in a new Shell), the size
\* last set on the PTY, and per connection the ttysize message its callback
\* handles (pend) or handled last, the geometry the handler found stored
\* (was), the Setsize calls and the error replies it made for that
\* message; n counts the ttysize messages received.
IdleTty ==
    [rows |-> 0, cols |-> 0, pty |-> <<0, 0>>, n |-> 0,
     pend |-> [c \in Conns |-> FALSE], msg |-> [c \in Conns |-> <<>>],
     was |-> [c \in Conns |-> <<>>], sets |-> [c \in Conns |-> <<>>],
     errs |-> [c \in Conns |-> 0]]

NRelays == 2    \* forwarded connections
NUCs    == 2    \* callers of Get and Next, one update channel each
NTypes  == 2    \* types of the values sent to C
Relays == 1..NRelays
UCs    == 1..NUCs
Types  == 1..NTypes

\* The forwarder: f.remote, and per forwarded connection the goroutine of
\* forwarder.server that runs session (spc), the remote it read, the two
\* io.Copy goroutines (up copies c to rc, down copies rc to c), the bytes
\* each peer has sent that were not read yet (cin, rin), whether each peer
\* has closed its end, and whether the forwarder has closed c and rc.
IdleRelay ==
    [remote |-> "",
     s |-> [i \in Relays |->
              [spc |-> "none", rem |-> "", dialed |-> FALSE,
               up |-> "none", down |-> "none", cin |-> 0, rin |-> 0,
               csent |-> 0, rsent |-> 0,
               cpeer |-> "open", rpeer |-> "open",
               cclosed |-> FALSE, rclosed |-> FALSE]]]

\* An Anymap: C is closed, the types that have a value, updateChans, per
\* update channel its done field ("none": not made, "open", "nil" after
\* shutdown closed it) and the caller of Get or Next that made it (call:
\* "next" while it ranges over uc.ch), the type it wants, the goroutines
\* that run uc.close() for it, the watch goroutine (wpc, wtodo), the
\* delivery goroutines in flight, each with the update channel, the type
\* of the value and the done channel it took, and the values sent.
IdleAmap ==
    [closed |-> FALSE, values |-> {}, chans |-> {},
     done |-> [u \in UCs |-> "none"], call |-> [u \in UCs |-> "none"],
     want |-> [u \in UCs |-> 0], closing |-> [u \in UCs |-> 0],
     deleting |-> [u \in UCs |-> 0],
     wpc |-> "recv", wtodo |-> {}, gs |-> {}, n |-> 0]

\* Calls of Client.Send and Client.SendLocked under way: per client the
\* number of callers that have appended their item to c.buffers and have
\* not yet made their send on c.ready (pend), and the number of calls
\* made (n).
IdleWake == [pend |-> [c \in Conns |-> 0], n |-> 0]

\* Primary election seen by its messages: per client the primary flag as
\* Take sets it, the primaryMessages sent to the client and not yet
\* handled by it (toClient), and the ttysize messages sent by the client
\* and not yet handled by the server (toServer); the keystroke chunks read
\* so far; the stored geometry and the size of the PTY.
IdleElect ==
    [prim |-> [c \in Conns |-> FALSE], toClient |-> [c \in Conns |-> 0],
     toServer |-> [c \in Conns |-> 0], keys |-> 0,
     rows |-> 0, cols |-> 0, pty |-> <<0, 0>>]

\* Nothing done yet by any peer, by the child or by the PTY.
NoneUsed ==
    [keys |-> 0, excl |-> 0, names |-> 0, asks |-> 0, out |-> 0,
     hangup |-> 0, deaths |-> 0, closes |-> 0, fwds |-> 0]

\* Nothing in progress: no lock held, no handler running.
NothingHeld ==
    /\ smu = 0
    /\ cmu = [c \in Conns |-> FALSE]
    /\ pids = [p \in Pids |-> 0]
    /\ primary = [c \in Conns |-> FALSE]
    /\ buffers = [c \in Conns |-> <<>>]
    /\ ready = [c \in Conns |-> [tok |-> 0, closed |-> FALSE, nil |-> FALSE]]
    /\ rtodo = [c \in Conns |-> {}]
    /\ rcur = [c \in Conns |-> 0]
    /\ closers = [c \in Conns |->
                    [start |-> 0, setnil |-> 0, await |-> 0, mark |-> 0]]
    /\ connClosed = [c \in Conns |-> FALSE]
    /\ detaching = [c \in Conns |-> FALSE]
    /\ alive = [p \in Pids |-> TRUE]
    /\ ppc = "read"
    /\ ptodo = {}
    /\ pchunk = <<>>
    /\ crashed = FALSE
    /\ lastPid = [c \in Conns |-> 0]
    /\ ptyWrite = [by |-> 0, primary |-> {}]
    /\ countReply = [n |-> 0, live |-> 0, asked |-> FALSE]
    /\ srv = IdleSrv
    /\ fwd = IdleFwd
    /\ sess = IdleSess
    /\ tty = IdleTty
    /\ relay = IdleRelay
    /\ amap = IdleAmap
    /\ wake = IdleWake
    /\ elect = IdleElect

\* Nothing in progress and nothing counted.
ShellQuiet ==
    /\ NothingHeld
    /\ used = NoneUsed

\* No connection yet.
NoConns ==
    /\ clients = {}
    /\ rpc = [c \in Conns |-> "none"]
    /\ dpc = [c \in Conns |-> "none"]
    /\ enq = [c \in Conns |-> <<>>]
    /\ written = [c \in Conns |-> <<>>]

IdleShell ==
    /\ ShellQuiet
    /\ NoConns

-----------------------------------------------------------------------------
(* SpecCodec: one writer, one reader, one stream.                          *)

MaxSends == 3

\* Opaque chunks and framed messages the writer is asked to send.  The last
\* payload is longer than the reader's buffer and than the writer's copy
\* threshold.
SendInputs ==
    { <<0, <<65>>>>, <<0, <<0>>>>, <<0, <<65, 0, 66>>>>,
      <<2, <<>>>>, <<2, <<49, 0>>>>, <<5, <<97, 98, 99>>>>,
      <<5, <<97, 98, 99, 100, 101, 102, 103, 104, 105>>>> }

\* len(buf) of the Read calls.
ReadSizes == {1, 2, 16}

InitCodec ==
    /\ wire = <<>>
    /\ weof = FALSE
    /\ sent = <<>>
    /\ rd = NewMessengerReader

\* MessengerWriter.Send(kind, buf) by the only user of the writer: its
\* underlying writes reach the stream in order.
CodecSend ==
    \E in \in SendInputs :
        /\ Len(sent) < MaxSends
        /\ ~weof
        /\ sent' = Append(sent, in)
        /\ wire' = wire \o Concat(CallChunks(in[1], in[2]))
        /\ UNCHANGED <<weof, rd>>

\* The writing side closes the stream.
CodecClose ==
    /\ ~weof
    /\ weof' = TRUE
    /\ UNCHANGED <<wire, sent, rd>>

\* A call of MessengerReader.Read(buf), up to its return or its first
\* underlying read.
CodecRead ==
    \E n \in ReadSizes :
        /\ rd.pc = "idle"
        /\ rd' = LoopTop([rd EXCEPT !.room = n, !.cnt = 0, !.ret = <<>>,
                                    !.cbdata = FALSE])
        /\ UNCHANGED <<wire, weof, sent>>

\* CodecFill with an underlying read that returns (0, nil) on an empty open
\* stream instead of blocking.
CodecFillEOF ==
    /\ rd.pc = "read"
    /\ LET space == rd.cap - Len(rd.msg)
       IN  IF space <= 0 \/ wire = <<>>
           THEN /\ rd' = ReadNothing(rd)
                /\ UNCHANGED <<wire, weof, sent>>
           ELSE \E n \in {1, Min(space, Len(wire))} :
                    /\ rd' = ReadBytes(rd, SubSeq(wire, 1, n))
                    /\ wire' = SubSeq(wire, n + 1, Len(wire))
                    /\ UNCHANGED <<weof, sent>>

\* The underlying read fill is waiting for returns, and Read continues up
\* to its return or its next underlying read.  A read into an empty slice
\* returns (0, nil); a read of an empty open stream blocks.
CodecFill ==
    /\ rd.pc = "read"
    /\ LET space == rd.cap - Len(rd.msg)
       IN  IF space <= 0
           THEN /\ rd' = ReadNothing(rd)
                /\ UNCHANGED <<wire, weof, sent>>
           ELSE IF wire # <<>>
           THEN \E n \in {1, Min(space, Len(wire))} :
                    /\ rd' = ReadBytes(rd, SubSeq(wire, 1, n))
                    /\ wire' = SubSeq(wire, n + 1, Len(wire))
                    /\ UNCHANGED <<weof, sent>>
           ELSE /\ weof
                /\ rd' = ReadNothing(rd)
                /\ UNCHANGED <<wire, weof, sent>>

NextCodec ==
    \/ (CodecSend /\ UNCHANGED <<writerVars, ebVars, shellVars>>)
    \/ (CodecClose /\ UNCHANGED <<writerVars, ebVars, shellVars>>)
    \/ (CodecRead /\ UNCHANGED <<writerVars, ebVars, shellVars>>)
    \/ (CodecFill /\ UNCHANGED <<writerVars, ebVars, shellVars>>)

CodecInit == InitCodec /\ IdleWriter /\ IdleEB /\ IdleShell

SpecCodec == CodecInit /\ [][NextCodec]_vars

\* What a reader must deliver for the calls in sent.
RECURSIVE Expected(_)
Expected(calls) ==
    IF calls = <<>> THEN <<>>
    ELSE LET c == Head(calls)
         IN  (IF c[1] = 0 THEN DataEvents(c[2]) ELSE << <<"m", c[1], c[2]>> >>)
             \o Expected(Tail(calls))

\* The reader has consumed the whole stream.
CodecDrained ==
    /\ wire = <<>>
    /\ rd.mh >= Len(rd.msg)

\* C1: whatever Send calls were made (opaque chunks and framed messages),
\* the reader delivers the same opaque bytes and the same (kind, payload)
\* callbacks in the same order: what it has delivered is always a prefix of
\* what was sent, it reports no error while the stream is open, and once it
\* has consumed the stream it has delivered everything.
C1_FramingRoundTrip ==
    /\ IsPrefix(rd.got, Expected(sent))
    /\ (rd.err # "none" => weof)
    /\ (CodecDrained => rd.got = Expected(sent))

-----------------------------------------------------------------------------
(* SpecCodec, continued: the reader's buffer and a payload longer than it. *)

Range(s) == {s[i] : i \in 1..Len(s)}

\* The framed messages sent whose payload is longer than the buffer of a
\* new reader.
LongMessages ==
    {i \in 1..Len(sent) : sent[i][1] # 0 /\ Len(sent[i][2]) > ReaderCap}

\* C23: for a framed message whose advertised payload length exceeds the
\* buffer's capacity, fill grows the buffer to at least that length (so the
\* underlying read for the payload always has a buffer of at least count
\* bytes), the bytes already buffered stay in front, and the callback gets
\* exactly the advertised payload bytes: once the stream is consumed every
\* long message sent has been delivered, and the reader set no error on the
\* open stream.
C23_BufferSizing ==
    /\ (rd.pc = "read" /\ rd.k = 7) => rd.cap >= rd.count
    /\ (rd.err # "none" => weof)
    /\ CodecDrained =>
          \A i \in LongMessages : <<"m", sent[i][1], sent[i][2]>> \in Range(rd.got)

-----------------------------------------------------------------------------

(* SpecCodec, continued: opaque data and callbacks within one Read call.   *)

\* What the reader delivers in a step.
Delivered == SubSeq(rd'.got, Len(rd.got) + 1, Len(rd'.got))

\* C29: within one Read call no callback is invoked after opaque bytes
\* have been copied into the caller's buffer: a step of a call that has
\* copied bytes (cnt > 0) delivers no callback, and no step delivers a
\* callback after an opaque byte; a Read that meets a message after data
\* returns the data and leaves the message to a later call.
C29_DataControlBoundary ==
    /\ [](~rd.cbdata)
    /\ [][LET new == Delivered
          IN  /\ (rd.pc = "read" /\ rd.cnt > 0) =>
                     \A i \in 1..Len(new) : new[i][1] = "d"
              /\ \A i, j \in 1..Len(new) :
                     (i < j /\ new[i][1] = "d") => new[j][1] = "d"
              /\ (rd'.pc = "idle" /\ rd.pc # "idle" /\ rd'.ret[2] = "none")
                     => rd'.ret[1] = rd'.cnt]_vars

\* Data, a message and data were sent and read back: the Read that copied
\* the first byte returned before the callback fired.
C29_Witness ==
    /\ sent = << <<0, <<65>>>>, <<5, <<97, 98, 99>>>>, <<0, <<65>>>> >>
    /\ CodecDrained
    /\ rd.got = << <<"d", 65>>, <<"m", 5, <<97, 98, 99>>>>, <<"d", 65>> >>

-----------------------------------------------------------------------------

(* SpecCut: SpecCodec with messages that fit the reader's buffer and a     *)
(* stream that can end with the last bytes written never arriving.         *)

\* The Send calls whose payload fits the buffer of a new reader.
CutInputs == {in \in SendInputs : Len(in[2]) <= ReaderCap - 6}

CutSend ==
    \E in \in CutInputs :
        /\ Len(sent) < MaxSends
        /\ ~weof
        /\ sent' = Append(sent, in)
        /\ wire' = wire \o Concat(CallChunks(in[1], in[2]))
        /\ UNCHANGED <<weof, rd>>

\* The connection is lost: the last k bytes written never arrive and the
\* reader's underlying reads end with an error.
CodecCut ==
    \E k \in 0..Len(wire) :
        /\ ~weof
        /\ weof' = TRUE
        /\ wire' = SubSeq(wire, 1, Len(wire) - k)
        /\ UNCHANGED <<sent, rd>>

NextCut ==
    \/ (CutSend /\ UNCHANGED <<writerVars, ebVars, shellVars>>)
    \/ (CodecCut /\ UNCHANGED <<writerVars, ebVars, shellVars>>)
    \/ (CodecRead /\ UNCHANGED <<writerVars, ebVars, shellVars>>)
    \/ (CodecFill /\ UNCHANGED <<writerVars, ebVars, shellVars>>)

SpecCut == CodecInit /\ [][NextCut]_vars

\* The opaque bytes among delivered or expected events.
RECURSIVE DataOf(_)
DataOf(evs) ==
    IF evs = <<>> THEN <<>>
    ELSE (IF Head(evs)[1] = "d" THEN <<Head(evs)[2]>> ELSE <<>>)
         \o DataOf(Tail(evs))

\* C40: the reader never returns as opaque data a byte the writer sent as
\* part of a framed message: the opaque bytes delivered are always a prefix
\* of the opaque bytes sent; and after a Read has failed, every later Read
\* returns 0 bytes and the same error.
C40_NoPayloadAsData ==
    /\ [](IsPrefix(DataOf(rd.got), DataOf(Expected(sent))))
    /\ [][(rd.pc = "idle" /\ rd.ret # <<>> /\ rd.ret[2] # "none"
              /\ rd'.pc = "idle" /\ rd'.ret # <<>>)
             => rd'.ret = <<0, rd.ret[2]>>]_vars

-----------------------------------------------------------------------------

(* SpecZero: MessengerWriter.Write on one stream, read back by a           *)
(* MessengerReader.                                                        *)

MaxWrites == 2
MaxLen == 3

\* The byte sequences written: every sequence of NULs and As up to MaxLen.
ZeroInputs == UNION {[1..n -> {0, 65}] : n \in 0..MaxLen}

\* MessengerWriter.Write(buf): its underlying writes reach the stream in
\* order; sent records the call with what it returned.
ZeroWrite ==
    \E buf \in ZeroInputs :
        /\ Len(sent) < MaxWrites
        /\ ~weof
        /\ sent' = Append(sent, <<0, buf, WriteReturn(buf)>>)
        /\ wire' = wire \o Concat(WriteChunks(buf))
        /\ UNCHANGED <<weof, rd>>

NextZero ==
    \/ (ZeroWrite /\ UNCHANGED <<writerVars, ebVars, shellVars>>)
    \/ (CodecClose /\ UNCHANGED <<writerVars, ebVars, shellVars>>)
    \/ (CodecRead /\ UNCHANGED <<writerVars, ebVars, shellVars>>)
    \/ (CodecFill /\ UNCHANGED <<writerVars, ebVars, shellVars>>)

SpecZero == CodecInit /\ [][NextZero]_vars

\* bs with every NUL doubled.
RECURSIVE Stuffed(_)
Stuffed(bs) ==
    IF bs = <<>> THEN <<>>
    ELSE (IF Head(bs) = 0 THEN <<0, 0>> ELSE <<Head(bs)>>) \o Stuffed(Tail(bs))

\* C15: Write(B) appends B to the wire with every NUL doubled and every
\* other byte unchanged and returns len(B); what the reader delivers is
\* always a prefix of the bytes written, and once it has consumed the wire
\* it has delivered exactly the bytes written.
C15_ZeroStuffing ==
    /\ [](/\ IsPrefix(rd.got, Expected(sent))
          /\ (CodecDrained => rd.got = Expected(sent)))
    /\ [][Len(sent') > Len(sent) =>
             LET call == sent'[Len(sent')]
             IN  /\ wire' = wire \o Stuffed(call[2])
                 /\ call[3] = Len(call[2])]_vars

\* Two writes with NULs at the start, in the middle and at the end have
\* been read back in full.
C15_Witness ==
    /\ Len(sent) = 2
    /\ sent[1][2] = <<0, 65, 0>>
    /\ sent[2][2] = <<0, 0>>
    /\ CodecDrained
    /\ rd.got = Expected(sent)

-----------------------------------------------------------------------------
(* SpecS1: the writer sends data "A\0B", a ttyname message "123:t" and     *)
(* data "C" on one stream, read back by a MessengerReader.                 *)

S1Calls ==
    << <<dataMessage, <<65, 0, 66>>>>,
       <<ttynameMessage, <<49, 50, 51, 58, 116>>>>,
       <<dataMessage, <<67>>>> >>

\* The next Send of the scenario.
S1Send ==
    /\ Len(sent) < Len(S1Calls)
    /\ LET call == S1Calls[Len(sent) + 1]
       IN  /\ sent' = Append(sent, call)
           /\ wire' = wire \o Concat(CallChunks(call[1], call[2]))
    /\ UNCHANGED <<weof, rd>>

NextS1 ==
    \/ (S1Send /\ UNCHANGED <<writerVars, ebVars, shellVars>>)
    \/ (CodecRead /\ UNCHANGED <<writerVars, ebVars, shellVars>>)
    \/ (CodecFill /\ UNCHANGED <<writerVars, ebVars, shellVars>>)

SpecS1 == CodecInit /\ [][NextS1]_vars

\* The wire bytes the scenario states, and the same with the kind byte of
\* ttynameMessage.
S1WireStated == <<65, 0, 0, 66, 0, 4, 0, 0, 0, 5, 49, 50, 51, 58, 116, 67>>
S1Wire == <<65, 0, 0, 66, 0, 2, 0, 0, 0, 5, 49, 50, 51, 58, 116, 67>>

\* The end of each call's bytes on the wire.
S1Ends == <<4, 15, 16>>

\* The k-th Send of the scenario put its part of bytes on the wire.
S1Appends(bytes) ==
    Len(sent') > Len(sent) =>
        LET k == Len(sent')
        IN  wire' = wire \o SubSeq(bytes, IF k = 1 THEN 1 ELSE S1Ends[k - 1] + 1,
                                   S1Ends[k])

\* The reader yields "A\0B", one callback (ttyname, "123:t"), then "C".
S1ReadBack ==
    /\ IsPrefix(rd.got, Expected(S1Calls))
    /\ (Len(sent) = Len(S1Calls) /\ CodecDrained) => rd.got = Expected(S1Calls)

\* C24 as stated: the three sends produce exactly the wire bytes
\* 41 00 00 42 00 04 00 00 00 05 31 32 33 3A 74 43, and the reader yields
\* "A\0B", one callback (ttyname, "123:t"), then "C".
C24_WireStated == [][S1Appends(S1WireStated)]_vars /\ []S1ReadBack

\* C24, amended: the three sends produce exactly the wire bytes
\* 41 00 00 42 00 02 00 00 00 05 31 32 33 3A 74 43 (the kind byte of
\* ttyname is 2), and the reader yields "A\0B", one callback
\* (ttyname, "123:t"), then "C".
C24_WireS1 == [][S1Appends(S1Wire)]_vars /\ []S1ReadBack

\* All three sends were made and the reader has delivered the data, the
\* callback and the data.
C24_Witness ==
    /\ sent = S1Calls
    /\ CodecDrained
    /\ rd.got = << <<"d", 65>>, <<"d", 0>>, <<"d", 66>>,
                   <<"m", ttynameMessage, <<49, 50, 51, 58, 116>>>>,
                   <<"d", 67>> >>

-----------------------------------------------------------------------------

(* SpecPartial: the bytes of one framed message reach a MessengerReader    *)
(* in pieces over a stream that stays open.                                *)

\* The wire bytes of Send(5, "abc").
PartialMessage == Concat(CallChunks(5, <<97, 98, 99>>))

\* sent lists the pieces that arrived, each with whether the reader was
\* blocked in its underlying read when the piece came.
ArrivedBytes == Concat([i \in 1..Len(sent) |-> sent[i][1]])

\* The next bytes of the message reach the stream.
PartialArrive ==
    \E n \in 1..(Len(PartialMessage) - Len(ArrivedBytes)) :
        LET piece == SubSeq(PartialMessage, Len(ArrivedBytes) + 1,
                            Len(ArrivedBytes) + n)
        IN  /\ wire' = wire \o piece
            /\ sent' = Append(sent, <<piece, rd.pc = "read" /\ wire = <<>>>>)
            /\ UNCHANGED <<weof, rd>>

NextPartial ==
    \/ (PartialArrive /\ UNCHANGED <<writerVars, ebVars, shellVars>>)
    \/ (CodecRead /\ UNCHANGED <<writerVars, ebVars, shellVars>>)
    \/ (CodecFill /\ UNCHANGED <<writerVars, ebVars, shellVars>>)

SpecPartial == CodecInit /\ [][NextPartial]_vars

\* The reader has taken the bytes 00 05 from the stream and nothing more
\* has arrived.
HeaderStalled ==
    /\ ArrivedBytes = <<0, 5>>
    /\ wire = <<>>
    /\ rd.msg = <<0, 5>>

\* C22 as stated: with only 00 05 received and nothing more available, Read
\* has returned 0 bytes and no error.
C22_StallReturns ==
    HeaderStalled => (rd.pc = "idle" /\ rd.ret = <<0, "none">>)

\* C22, amended: with only 00 05 received and nothing more available, Read
\* does not return but waits in fill(6) for the underlying read; no Read
\* call returns at all while the message is incomplete or after it, so no
\* opaque data is returned, and once the remaining bytes 00 00 00 03 61 62
\* 63 have been read the callback has fired exactly once, with (5, "abc").
C22_PartialHeader ==
    /\ HeaderStalled => (rd.pc = "read" /\ rd.k = 6 /\ rd.need = 6)
    /\ rd.ret = <<>>
    /\ rd.got \in {<<>>, << <<"m", 5, <<97, 98, 99>>>> >>}
    /\ (ArrivedBytes = PartialMessage /\ CodecDrained)
           => rd.got = << <<"m", 5, <<97, 98, 99>>>> >>

\* The reader was blocked on 00 05 when the rest arrived, and the callback
\* has fired.
C22_Witness ==
    /\ Len(sent) = 2
    /\ sent[1][1] = <<0, 5>>
    /\ sent[2] = <<<<0, 0, 0, 3, 97, 98, 99>>, TRUE>>
    /\ rd.got = << <<"m", 5, <<97, 98, 99>>>> >>
    /\ rd.pc = "read"

-----------------------------------------------------------------------------
(* SpecWriter: goroutines sharing one MessengerWriter, as the drain task   *)
(* of a Client (Client.runout) and the callbacks of the attachment's       *)
(* reader do.  Each underlying write (m.w.Write) is one step.              *)

NWriters == 2
MaxCalls == 3

Writers == 1..NWriters

\* The second framed payload is longer than OneK - 6, so Send writes it in
\* two underlying writes.
WriterInputs ==
    { <<0, <<65>>>>, <<0, <<65, 0, 66>>>>,
      <<7, <<49>>>>, <<3, <<97, 98, 99>>>> }

NoCall == [id |-> 0, chunks |-> <<>>]

\* Goroutine 1 is the drain task: it writes opaque data (c.out.Write) and
\* framed messages (w.Send).  The others run reader callbacks, which send
\* framed replies only (mw.Send, mw.Sendf).
DrainTask == 1

InitWriter ==
    /\ wmu = 0
    /\ wcall = [g \in Writers |-> NoCall]
    /\ wstream = <<>>
    /\ wcalls = <<>>

\* Send locks m.mu for a framed message ("defer m.mu.Lock("Send")()" after
\* the kind == 0 test); Write locks nothing.
TakesWriterLock(kind) == kind # 0

\* Goroutine g calls Send(kind, buf): for kind 0 it is inside Write, for a
\* framed message it has acquired m.mu.
WriterCall(g) ==
    \E in \in WriterInputs :
        /\ wcall[g] = NoCall
        /\ (g # DrainTask => in[1] # 0)
        /\ Len(wcalls) < MaxCalls
        /\ IF TakesWriterLock(in[1])
           THEN wmu = 0 /\ wmu' = g
           ELSE wmu' = wmu
        /\ wcalls' = Append(wcalls, in)
        /\ wcall' = [wcall EXCEPT ![g] =
                        [id |-> Len(wcalls) + 1,
                         chunks |-> CallChunks(in[1], in[2])]]
        /\ UNCHANGED wstream

\* One underlying write of the call of g; after the last one the call
\* returns and releases m.mu if it holds it.
WriterWrite(g) ==
    /\ wcall[g] # NoCall
    /\ LET c    == wcall[g]
           rest == Tail(c.chunks)
       IN  /\ wstream' = wstream \o [i \in 1..Len(Head(c.chunks)) |->
                                        <<c.id, Head(c.chunks)[i]>>]
           /\ IF rest = <<>>
              THEN /\ wcall' = [wcall EXCEPT ![g] = NoCall]
                   /\ wmu' = IF wmu = g THEN 0 ELSE wmu
              ELSE /\ wcall' = [wcall EXCEPT ![g].chunks = rest]
                   /\ wmu' = wmu
    /\ UNCHANGED wcalls

NextWriter ==
    \/ \E g \in Writers : WriterCall(g) /\ UNCHANGED <<codecVars, ebVars, shellVars>>
    \/ \E g \in Writers : WriterWrite(g) /\ UNCHANGED <<codecVars, ebVars, shellVars>>

WriterInit == IdleCodec /\ InitWriter /\ IdleEB /\ IdleShell

SpecWriter == WriterInit /\ [][NextWriter]_vars

\* C3: concurrent calls interleave at message boundaries only: the bytes of
\* one call (the header and payload of a framed message, both writes of a
\* long payload, the two bytes of a stuffed NUL) are contiguous on the
\* stream; no byte of another call lies between two bytes of one call.
C3_BoundariesOnly ==
    \A i, j \in 1..Len(wstream) :
        (i < j /\ wstream[i][1] = wstream[j][1])
            => \A k \in i..j : wstream[k][1] = wstream[i][1]

-----------------------------------------------------------------------------
(* SpecEB: the shell's EscapeBuffer fed the PTY's output in chunks, as     *)
(* Shell.runout feeds it whatever each read of the PTY returns.            *)

hello == <<104, 101, 108, 108, 111>>
alttext == <<97, 108, 116>>

\* PTY outputs: scenario S3, an alternate-screen round trip, an erase of
\* the saved lines, output with a lone ESC, and erases in both screens.
S3Output == hello \o scasb \o edall \o alttext

PtyOutputs ==
    { S3Output,
      <<97>> \o scasb \o <<98>> \o nsbrc \o <<99>>,
      <<97>> \o edsaved \o <<98>> \o sendSSH,
      <<97, 27, 98>>,
      scasb \o edall \o <<120>> \o nsbrc \o <<121>> \o edb0 }

\* The longest chunk one read of the PTY returns
MaxChunk == 20

InitEB ==
    /\ ebsrc \in PtyOutputs
    /\ ebrest = ebsrc
    /\ eb = NewEscapeBuffer(0, ShellSequences)

\* Shell.runout reads the next k bytes of output and writes them to the
\* buffer (s.eb.Write(buf[:r])).
EBFeed ==
    \E k \in 1..Min(MaxChunk, Len(ebrest)) :
        /\ eb' = EBWrite(eb, SubSeq(ebrest, 1, k))
        /\ ebrest' = SubSeq(ebrest, k + 1, Len(ebrest))
        /\ UNCHANGED ebsrc

NextEB ==
    \/ (EBFeed /\ UNCHANGED <<codecVars, writerVars, shellVars>>)

EBInit == IdleCodec /\ IdleWriter /\ InitEB /\ IdleShell

SpecEB == EBInit /\ [][NextEB]_vars

\* C6: e.inalt selects the buffer of every appended byte, also of the
\* bytes that follow an alt-screen enter or exit in the same Write chunk;
\* so once the PTY has emitted "hello" ESC[?1049h ESC[2J "alt", in whatever
\* chunks, normal is "hello", alt is ESC[H ESC[2J "alt", and a new client
\* is sent the clear sequence, "hello", the enter sequence and that alt.
C6_InaltSelectsBuffer ==
    /\ ~eb.stray
    /\ (ebsrc = S3Output /\ ebrest = <<>>) =>
          /\ eb.normal = hello
          /\ eb.alt = home \o edall \o alttext
          /\ Concat(Repaint(eb)) = cls \o hello \o scasb \o home \o edall \o alttext

-----------------------------------------------------------------------------
(* SpecBound: an EscapeBuffer of a small capacity with one registered      *)
(* sequence whose callback keeps it, written to and flushed as the         *)
(* repository's test does.                                                 *)

BoundCap == 16
MaxFeeds == 3

xyz == <<120, 121, 122>>

BoundSeqs == << [seq |-> xyz, cb |-> "keep"] >>

\* The arguments of Write: short ones, a prefix of the sequence, the
\* sequence, one a byte shorter than the capacity and one longer than it.
BoundChunks ==
    { <<97>>, <<98, 99>>, <<120>>, xyz,
      [i \in 1..(BoundCap - 1) |-> 64 + (i % 26)],
      [i \in 1..(BoundCap + 1) |-> 64 + (i % 26)] }

InitBound ==
    /\ eb = NewEscapeBuffer(BoundCap, BoundSeqs)
    /\ ebrest = <<>>
    /\ ebsrc = <<>>

\* EscapeBuffer.Write(buf); ebsrc counts the calls.
BoundWrite ==
    \E buf \in BoundChunks :
        /\ ~eb.panic
        /\ Len(ebsrc) < MaxFeeds
        /\ eb' = EBWrite(eb, buf)
        /\ ebsrc' = Append(ebsrc, Len(buf))
        /\ UNCHANGED ebrest

\* EscapeBuffer.Flush: the saved partial match is appended to the buffer
\* e.inalt selects; e.partial is left as it is.
EBFlush(e) == Add(e, e.inalt, e.partial)

BoundFlush ==
    /\ ~eb.panic
    /\ eb.partial # <<>>
    /\ ebrest = <<>>
    /\ eb' = EBFlush(eb)
    /\ ebrest' = <<1>>
    /\ UNCHANGED ebsrc

NextBound ==
    \/ (BoundWrite /\ UNCHANGED <<codecVars, writerVars, shellVars>>)
    \/ (BoundFlush /\ UNCHANGED <<codecVars, writerVars, shellVars>>)

BoundInit == IdleCodec /\ IdleWriter /\ InitBound /\ IdleShell

SpecBound == BoundInit /\ [][NextBound]_vars

IsSuffix(s, t) ==
    Len(s) <= Len(t) /\ SubSeq(t, Len(t) - Len(s) + 1, Len(t)) = s

\* What C16 says of one buffer buf and the bytes hist appended to it.
Bounded(buf, hist) ==
    /\ Len(buf) <= BoundCap
    /\ IsSuffix(buf, hist)
    /\ hist # <<>> => (buf # <<>> /\ buf[Len(buf)] = hist[Len(hist)])

\* C39: appendto never indexes out of range: whatever the buffer holds and
\* for every length of new data, the number of head bytes appendto drops
\* is at most the buffer's current length, so no call has failed and none
\* would.
C39_AppendtoInRange ==
    /\ ~eb.panic
    /\ \A nl \in 0..(BoundCap + 1) :
           /\ ~AppendPanics(eb.normal, [i \in 1..nl |-> 97], eb.ncap)
           /\ ~AppendPanics(eb.alt, [i \in 1..nl |-> 97], eb.acap)

\* C16: after any sequence of Write and Flush calls neither normal nor alt
\* is longer than the capacity given to NewEscapeBuffer, each is a suffix
\* of the bytes appended to it, and the byte appended last is its last
\* byte.
C16_EscapeBufferBound ==
    /\ Bounded(eb.normal, eb.nhist)
    /\ Bounded(eb.alt, eb.ahist)

-----------------------------------------------------------------------------
(* Spec: the shell host.  One step is what a goroutine does between two    *)
(* points where it can block (a mutex, a channel, the PTY, a connection).  *)

\* The server process has neither panicked nor exited; a step of the shell
\* leaves the variables of the other specifications alone.
Alive ==
    /\ ~crashed
    /\ ~srv.gone
    /\ UNCHANGED <<codecVars, writerVars, ebrest, ebsrc, sess, tty, relay,
                   amap, wake, elect>>

\* A step that is no part of the server's way down nor of forwarding.
Running ==
    /\ Alive
    /\ UNCHANGED <<srv, fwd>>

InitShell ==
    /\ IdleShell
    /\ eb = NewEscapeBuffer(0, ShellSequences)
    /\ ebrest = <<>>
    /\ ebsrc = <<>>

\* The mailboxes as one value: buffers, ready, enq and crashed.
Mailboxes == [b |-> buffers, r |-> ready, e |-> enq, x |-> crashed]

SetMailboxes(m) ==
    /\ buffers' = m.b
    /\ ready' = m.r
    /\ enq' = m.e
    /\ crashed' = m.x

\* Client.Send and Client.SendLocked: append to c.buffers, then a
\* non-blocking send on c.ready.  A nil channel is never ready; a send on
\* a closed channel panics.
ClientSend(m, c, kind, data) ==
    IF kind = dataMessage /\ data = <<>> THEN m
    ELSE LET item == [kind |-> kind, data |-> data]
             q    == [m EXCEPT !.b[c] = Append(@, item),
                               !.e[c] = Append(@, item)]
         IN  IF q.r[c].nil THEN q
             ELSE IF q.r[c].closed THEN [q EXCEPT !.x = TRUE]
             ELSE [q EXCEPT !.r[c].tok = 1]

\* An Output that enqueues its buffer twice.
ClientOutputTwice(m, c, data) ==
    ClientSend(ClientSend(m, c, dataMessage, data), c, dataMessage, data)

\* Client.Output
ClientOutput(m, c, data) == ClientSend(m, c, dataMessage, data)

RECURSIVE OutputAll(_, _, _)
OutputAll(m, c, bufs) ==
    IF bufs = <<>> THEN m
    ELSE OutputAll(ClientOutput(m, c, Head(bufs)), c, Tail(bufs))

\* The server accepts connection c (they are accepted in order):
\* NewClient starts the drain task, Shell.Attach sends start and the
\* repaint and adds the client, all under Shell.mu.
Attach(c) ==
    /\ Running
    /\ rpc[c] = "none"
    /\ \A o \in Conns : o < c => rpc[o] # "none"
    /\ smu = 0
    /\ SetMailboxes(OutputAll(ClientSend(Mailboxes, c, startMessage, <<>>),
                              c, Repaint(eb)))
    /\ clients' = clients \cup {c}
    /\ rpc' = [rpc EXCEPT ![c] = "idle"]
    /\ dpc' = [dpc EXCEPT ![c] = "wait"]
    /\ UNCHANGED <<smu, cmu, pids, primary, rtodo, rcur, closers, connClosed,
                   detaching, alive, ppc, ptodo, pchunk, used, written,
                   lastPid, ptyWrite, countReply, eb>>

\* Client.runout at its select: it takes the token of c.ready, or finds
\* the channel closed and empty and returns (closing c.done).
DrainWake(c) ==
    /\ Running
    /\ dpc[c] = "wait"
    /\ IF ready[c].tok = 1
       THEN /\ ready' = [ready EXCEPT ![c].tok = 0]
            /\ dpc' = [dpc EXCEPT ![c] = "run"]
       ELSE /\ ready[c].closed
            /\ ready' = ready
            /\ dpc' = [dpc EXCEPT ![c] = "done"]
    /\ UNCHANGED <<smu, cmu, clients, pids, primary, buffers, rpc, rtodo,
                   rcur, closers, connClosed, detaching, alive, ppc, ptodo,
                   pchunk, crashed, used, enq, written, lastPid, ptyWrite,
                   countReply, eb>>

\* A mailbox that hands out its newest item.
NextBufLast(bufs) == bufs[Len(bufs)]

\* Client.nextBuf: the item the drain task takes from the mailbox
NextBuf(bufs) == Head(bufs)

\* Client.runout's inner loop: nextBuf under c.mu, then the write of the
\* item to c.out; an empty mailbox sends it back to the select.
DrainStep(c) ==
    /\ Running
    /\ dpc[c] = "run"
    /\ ~cmu[c]
    /\ IF buffers[c] = <<>>
       THEN /\ dpc' = [dpc EXCEPT ![c] = "wait"]
            /\ UNCHANGED <<buffers, written>>
       ELSE /\ written' = [written EXCEPT ![c] =
                             Append(@, [item |-> NextBuf(buffers[c]),
                                        open |-> ~connClosed[c]])]
            /\ buffers' = [buffers EXCEPT ![c] = Tail(@)]
            /\ dpc' = dpc
    /\ UNCHANGED <<smu, cmu, clients, pids, primary, ready, rpc, rtodo, rcur,
                   closers, connClosed, detaching, alive, ppc, ptodo, pchunk,
                   crashed, used, enq, lastPid, ptyWrite, countReply, eb>>

\* A Take that tells the new primary nothing.
TakeFinishSilent(m, c) == m

\* The end of Shell.Take(c): c becomes primary and is sent primaryMessage;
\* both mutexes are released.
TakeFinish(m, c) == ClientSend(m, c, primaryMessage, <<>>)

\* A Take that leaves the other clients alone.
TakeClearsNever(oc) == FALSE

\* What Take does to another client oc under oc.mu: a primary one loses
\* the flag and is sent preemptMessage.
TakeClears(oc) == primary[oc]

\* The attach goroutine of c reads keystrokes and calls Take(c): it locks
\* c.mu and returns at once if c is primary.
RecvKeys(c) ==
    /\ Running
    /\ rpc[c] = "idle"
    /\ used.keys < MaxKeys
    /\ ~cmu[c]
    /\ used' = [used EXCEPT !.keys = @ + 1]
    /\ IF primary[c]
       THEN /\ rpc' = [rpc EXCEPT ![c] = "write"]
            /\ cmu' = cmu
       ELSE /\ rpc' = [rpc EXCEPT ![c] = "take"]
            /\ cmu' = [cmu EXCEPT ![c] = TRUE]
    /\ UNCHANGED <<smu, clients, pids, primary, buffers, ready, rtodo, rcur,
                   dpc, closers, connClosed, detaching, alive, ppc, ptodo,
                   pchunk, crashed, enq, written, lastPid, ptyWrite,
                   countReply, eb>>

\* Take(c) locks Shell.mu, holding c.mu.  With no other client attached it
\* finishes at once.
TakeShell(c) ==
    /\ Running
    /\ rpc[c] = "take"
    /\ smu = 0
    /\ IF clients \ {c} = {}
       THEN /\ primary' = [primary EXCEPT ![c] = TRUE]
            /\ SetMailboxes(TakeFinish(Mailboxes, c))
            /\ cmu' = [cmu EXCEPT ![c] = FALSE]
            /\ rpc' = [rpc EXCEPT ![c] = "write"]
            /\ UNCHANGED <<smu, rtodo>>
       ELSE /\ smu' = c
            /\ rtodo' = [rtodo EXCEPT ![c] = clients \ {c}]
            /\ rpc' = [rpc EXCEPT ![c] = "take3"]
            /\ UNCHANGED <<primary, buffers, ready, enq, crashed, cmu>>
    /\ UNCHANGED <<clients, pids, rcur, dpc, closers, connClosed, detaching,
                   alive, ppc, ptodo, pchunk, used, written, lastPid,
                   ptyWrite, countReply, eb>>

\* Take(c) visits another client oc under oc.mu; after the last one it
\* finishes.
TakeOther(c, oc) ==
    /\ Running
    /\ rpc[c] = "take3"
    /\ oc \in rtodo[c]
    /\ ~cmu[oc]
    /\ LET m1 == IF TakeClears(oc)
                 THEN ClientSend(Mailboxes, oc, preemptMessage, <<>>)
                 ELSE Mailboxes
           p1 == IF TakeClears(oc) THEN [primary EXCEPT ![oc] = FALSE]
                 ELSE primary
       IN  IF rtodo[c] = {oc}
           THEN /\ primary' = [p1 EXCEPT ![c] = TRUE]
                /\ SetMailboxes(TakeFinish(m1, c))
                /\ cmu' = [cmu EXCEPT ![c] = FALSE]
                /\ smu' = 0
                /\ rpc' = [rpc EXCEPT ![c] = "write"]
           ELSE /\ primary' = p1
                /\ SetMailboxes(m1)
                /\ UNCHANGED <<cmu, smu, rpc>>
    /\ rtodo' = [rtodo EXCEPT ![c] = @ \ {oc}]
    /\ UNCHANGED <<clients, pids, rcur, dpc, closers, connClosed, detaching,
                   alive, ppc, ptodo, pchunk, used, written, lastPid,
                   ptyWrite, countReply, eb>>

\* Shell.Write: the keystrokes of c go to the PTY, with no mutex held.
\* ptyWrite records who is primary at that moment.
PtyWrite(c) ==
    /\ Running
    /\ rpc[c] = "write"
    /\ ptyWrite' = [by |-> c,
                    primary |-> {o \in clients \cup {c} : primary[o]}]
    /\ rpc' = [rpc EXCEPT ![c] = "idle"]
    /\ UNCHANGED <<smu, cmu, clients, pids, primary, buffers, ready, rtodo,
                   rcur, dpc, closers, connClosed, detaching, alive, ppc,
                   ptodo, pchunk, crashed, used, enq, written, lastPid,
                   countReply, eb>>

\* Shell.runout reads a chunk from the PTY, locks Shell.mu and writes the
\* chunk to the escape buffer.
PtyRead ==
    \E chunk \in PtyChunks :
        /\ Running
        /\ ppc = "read"
        /\ used.out < MaxOut
        /\ smu = 0
        /\ used' = [used EXCEPT !.out = @ + 1]
        /\ eb' = EBWrite(eb, chunk)
        /\ IF clients = {}
           THEN UNCHANGED <<smu, ppc, ptodo, pchunk>>
           ELSE /\ smu' = PtyTask
                /\ ppc' = "fan"
                /\ ptodo' = clients
                /\ pchunk' = chunk
        /\ UNCHANGED <<cmu, clients, pids, primary, buffers, ready, rpc,
                       rtodo, rcur, dpc, closers, connClosed, detaching,
                       alive, crashed, enq, written, lastPid, ptyWrite,
                       countReply>>

\* Shell.runout sends the chunk to one attached client (c.Output, which
\* locks c.mu); after the last one it unlocks Shell.mu.
PtyOutput(c) ==
    /\ Running
    /\ ppc = "fan"
    /\ c \in ptodo
    /\ ~cmu[c]
    /\ SetMailboxes(ClientOutput(Mailboxes, c, pchunk))
    /\ ptodo' = ptodo \ {c}
    /\ IF ptodo = {c}
       THEN /\ smu' = 0
            /\ ppc' = "read"
       ELSE UNCHANGED <<smu, ppc>>
    /\ UNCHANGED <<cmu, clients, pids, primary, rpc, rtodo, rcur, dpc,
                   closers, connClosed, detaching, alive, pchunk, used,
                   written, lastPid, ptyWrite, countReply, eb>>

\* Shell.detach(c): remove c from Shell.clients
detach(cs, c) == cs \ {c}

\* The exclusiveMessage callback of c: under Shell.mu it lists the other
\* attached clients, then it unlocks.
RecvExclusive(c) ==
    /\ Running
    /\ rpc[c] = "idle"
    /\ used.excl < MaxExcl
    /\ smu = 0
    /\ used' = [used EXCEPT !.excl = @ + 1]
    /\ rtodo' = [rtodo EXCEPT ![c] = clients \ {c}]
    /\ rpc' = [rpc EXCEPT ![c] = IF clients \ {c} = {} THEN "idle" ELSE "excl"]
    /\ UNCHANGED <<smu, cmu, clients, pids, primary, buffers, ready, rcur,
                   dpc, closers, connClosed, detaching, alive, ppc, ptodo,
                   pchunk, crashed, enq, written, lastPid, ptyWrite,
                   countReply, eb>>

\* The exclusive callback of c calls s.Detach(oc) for the next listed
\* client.
ExclDetach(c, oc) ==
    /\ Running
    /\ rpc[c] = "excl"
    /\ rcur[c] = 0
    /\ oc \in rtodo[c]
    /\ smu = 0
    /\ clients' = detach(clients, oc)
    /\ rcur' = [rcur EXCEPT ![c] = oc]
    /\ rtodo' = [rtodo EXCEPT ![c] = @ \ {oc}]
    /\ UNCHANGED <<smu, cmu, pids, primary, buffers, ready, rpc, dpc,
                   closers, connClosed, detaching, alive, ppc, ptodo, pchunk,
                   crashed, used, enq, written, lastPid, ptyWrite,
                   countReply, eb>>

\* checkClose(fd) closes fd, in a new goroutine, if fd is an io.Closer, that
\* is if it has a method "Close() error".  A connection (net.Conn) has one.
\* Client.Close returns nothing, so a *Client is no io.Closer and
\* checkClose(client) does nothing.
IsCloser(what) == what = "conn"

\* checkClose(c) of a client c: the Close calls on c it leaves to be run.
CheckCloseClient(cl, c) ==
    IF IsCloser("client") THEN [cl EXCEPT ![c].start = @ + 1] ELSE cl

\* The exclusive callback of c sends the client it has detached the notice
\* (oc.Output) and calls checkClose(oc).
ExclNotice(c) ==
    /\ Running
    /\ rpc[c] = "excl"
    /\ rcur[c] # 0
    /\ ~cmu[rcur[c]]
    /\ SetMailboxes(ClientOutput(Mailboxes, rcur[c], Notice(c)))
    /\ closers' = CheckCloseClient(closers, rcur[c])
    /\ rcur' = [rcur EXCEPT ![c] = 0]
    /\ rpc' = [rpc EXCEPT ![c] = IF rtodo[c] = {} THEN "idle" ELSE "excl"]
    /\ UNCHANGED <<smu, cmu, clients, pids, primary, rtodo, dpc, connClosed,
                   detaching, alive, ppc, ptodo, pchunk, used, written,
                   lastPid, ptyWrite, countReply, eb>>

\* A goroutine calls c.Close().
CallClose(c) ==
    /\ Running
    /\ dpc[c] # "none"
    /\ used.closes < MaxCloses
    /\ used' = [used EXCEPT !.closes = @ + 1]
    /\ closers' = [closers EXCEPT ![c].start = @ + 1]
    /\ UNCHANGED <<smu, cmu, clients, pids, primary, buffers, ready, rpc,
                   rtodo, rcur, dpc, connClosed, detaching, alive, ppc,
                   ptodo, pchunk, crashed, enq, written, lastPid, ptyWrite,
                   countReply, eb>>

\* Client.Close up to close(c.ready): it returns if c.ready is nil, else
\* it sends a token without blocking and closes the channel.  Either
\* panics on a channel that is closed already.  mark notes how many items
\* had been enqueued when the call got past the nil test.
CloseStart(c) ==
    /\ Running
    /\ closers[c].start > 0
    /\ IF ready[c].nil
       THEN /\ closers' = [closers EXCEPT ![c].start = @ - 1]
            /\ UNCHANGED <<ready, crashed>>
       ELSE IF ready[c].closed
       THEN /\ crashed' = TRUE
            /\ UNCHANGED <<ready, closers>>
       ELSE /\ ready' = [ready EXCEPT ![c].tok = 1, ![c].closed = TRUE]
            /\ closers' = [closers EXCEPT ![c].start = @ - 1,
                                          ![c].setnil = @ + 1,
                                          ![c].mark = Len(enq[c])]
            /\ crashed' = crashed
    /\ UNCHANGED <<smu, cmu, clients, pids, primary, buffers, rpc, rtodo,
                   rcur, dpc, connClosed, detaching, alive, ppc, ptodo,
                   pchunk, used, enq, written, lastPid, ptyWrite, countReply,
                   eb>>

\* Client.Close: c.ready = nil
CloseSetNil(c) ==
    /\ Running
    /\ closers[c].setnil > 0
    /\ ready' = [ready EXCEPT ![c].nil = TRUE]
    /\ closers' = [closers EXCEPT ![c].setnil = @ - 1, ![c].await = @ + 1]
    /\ UNCHANGED <<smu, cmu, clients, pids, primary, buffers, rpc, rtodo,
                   rcur, dpc, connClosed, detaching, alive, ppc, ptodo,
                   pchunk, crashed, used, enq, written, lastPid, ptyWrite,
                   countReply, eb>>

\* Client.Close: <-c.done, then checkClose(c.out), which closes the
\* connection.
CloseAwait(c) ==
    /\ Running
    /\ closers[c].await > 0
    /\ dpc[c] = "done"
    /\ closers' = [closers EXCEPT ![c].await = @ - 1]
    /\ connClosed' = [connClosed EXCEPT ![c] = TRUE]
    /\ UNCHANGED <<smu, cmu, clients, pids, primary, buffers, ready, rpc,
                   rtodo, rcur, dpc, detaching, alive, ppc, ptodo, pchunk,
                   crashed, used, enq, written, lastPid, ptyWrite,
                   countReply, eb>>

\* Shell.AddPid
AddPid(ps, c, pid) == [ps EXCEPT ![pid] = c]

\* The ttynameMessage callback of c with payload "<pid>:<name>".
RecvTtyname(c, pid) ==
    /\ Running
    /\ rpc[c] = "idle"
    /\ used.names < MaxNames
    /\ smu = 0
    /\ used' = [used EXCEPT !.names = @ + 1]
    /\ pids' = AddPid(pids, c, pid)
    /\ lastPid' = [lastPid EXCEPT ![c] = pid]
    /\ UNCHANGED <<smu, cmu, clients, primary, buffers, ready, rpc, rtodo,
                   rcur, dpc, closers, connClosed, detaching, alive, ppc,
                   ptodo, pchunk, crashed, enq, written, ptyWrite,
                   countReply, eb>>

\* Shell.Count: the pids whose process is gone (syscall.Kill(pid, 0)
\* fails) are deleted and their clients detached; the rest are counted.
CountSweep(ps) == {p \in Pids : ps[p] # 0 /\ ~alive[p]}

Count(ps) == Cardinality({p \in Pids : ps[p] # 0 /\ p \notin CountSweep(ps)})

\* The attached clients whose last ttyname named a process that exists.
LiveClients(cs) == {c \in cs : lastPid[c] # 0 /\ alive[lastPid[c]]}

\* The askCountMessage callback of c: the reply is s.Count().
RecvAskCount(c) ==
    /\ Running
    /\ rpc[c] = "idle"
    /\ used.asks < MaxAsks
    /\ smu = 0
    /\ used' = [used EXCEPT !.asks = @ + 1]
    /\ pids' = [p \in Pids |-> IF p \in CountSweep(pids) THEN 0 ELSE pids[p]]
    /\ clients' = clients \ {pids[p] : p \in CountSweep(pids)}
    /\ countReply' = [n |-> Count(pids),
                      live |-> Cardinality(LiveClients(clients')),
                      asked |-> TRUE]
    /\ UNCHANGED <<smu, cmu, primary, buffers, ready, rpc, rtodo, rcur, dpc,
                   closers, connClosed, detaching, alive, ppc, ptodo, pchunk,
                   crashed, enq, written, lastPid, ptyWrite, eb>>

\* A client process exits.
PidDies(p) ==
    /\ Running
    /\ alive[p]
    /\ used.deaths < MaxDeaths
    /\ used' = [used EXCEPT !.deaths = @ + 1]
    /\ alive' = [alive EXCEPT ![p] = FALSE]
    /\ UNCHANGED <<smu, cmu, clients, pids, primary, buffers, ready, rpc,
                   rtodo, rcur, dpc, closers, connClosed, detaching, ppc,
                   ptodo, pchunk, crashed, enq, written, lastPid, ptyWrite,
                   countReply, eb>>

\* The read loop of c ends and Shell.attach returns: it starts
\* "go s.Detach(client)" and closes the connection.
AttachReturns(c) ==
    /\ rpc' = [rpc EXCEPT ![c] = "dead"]
    /\ detaching' = [detaching EXCEPT ![c] = TRUE]
    /\ connClosed' = [connClosed EXCEPT ![c] = TRUE]
    /\ UNCHANGED <<smu, cmu, clients, pids, primary, buffers, ready, rtodo,
                   rcur, dpc, closers, alive, ppc, ptodo, pchunk, crashed,
                   enq, written, lastPid, ptyWrite, countReply, eb>>

\* The peer of c hangs up: the read loop of c gets an error.
PeerHangup(c) ==
    /\ Running
    /\ rpc[c] = "idle"
    /\ ~connClosed[c]
    /\ used.hangup < MaxHangup
    /\ used' = [used EXCEPT !.hangup = @ + 1]
    /\ AttachReturns(c)

\* The server has closed the connection of c (Client.Close): the read
\* loop of c gets an error.
ConnEnd(c) ==
    /\ Running
    /\ rpc[c] = "idle"
    /\ connClosed[c]
    /\ used' = used
    /\ AttachReturns(c)

\* Shell.Detach(c), started by Shell.attach when it returned.
Detach(c) ==
    /\ Running
    /\ detaching[c]
    /\ smu = 0
    /\ clients' = detach(clients, c)
    /\ detaching' = [detaching EXCEPT ![c] = FALSE]
    /\ UNCHANGED <<smu, cmu, pids, primary, buffers, ready, rpc, rtodo, rcur,
                   dpc, closers, connClosed, alive, ppc, ptodo, pchunk,
                   crashed, used, enq, written, lastPid, ptyWrite,
                   countReply, eb>>

\* Shell.runout finds a read error (no bytes with it): under Shell.mu it
\* detaches every client and starts "go checkClose(c)" for each, then it
\* unlocks and goes to s.wg.Wait().
PtyError ==
    /\ Alive
    /\ ppc = "read"
    /\ smu = 0
    /\ ppc' = "wait"
    /\ clients' = {}
    /\ closers' = [c \in Conns |->
                     IF c \in clients THEN CheckCloseClient(closers, c)[c]
                     ELSE closers[c]]
    /\ srv' = [srv EXCEPT !.failed = clients]
    /\ UNCHANGED <<smu, cmu, pids, primary, buffers, ready, rpc, rtodo, rcur,
                   dpc, connClosed, detaching, alive, ptodo, pchunk, crashed,
                   used, enq, written, lastPid, ptyWrite, countReply, eb,
                   fwd>>

\* Shell.runout after s.wg.Wait(): the wait group counts the attached
\* clients (Add in Attach, Done in detach); then it locks Shell.mu and
\* closes Shell.done.
PtyDone ==
    /\ Alive
    /\ ppc = "wait"
    /\ clients = {}
    /\ smu = 0
    /\ ppc' = "end"
    /\ srv' = [srv EXCEPT !.done = TRUE]
    /\ UNCHANGED <<smu, cmu, clients, pids, primary, buffers, ready, rpc,
                   rtodo, rcur, dpc, closers, connClosed, detaching, alive,
                   ptodo, pchunk, crashed, used, enq, written, lastPid,
                   ptyWrite, countReply, eb, fwd>>

\* Shell.attach of c at its select finds Shell.done closed and returns.
DoneSeen(c) ==
    /\ Running
    /\ srv.done
    /\ rpc[c] = "idle"
    /\ used' = used
    /\ AttachReturns(c)

\* Session.Exit: exit(code) ends the process.
SessionExit(sv) == [sv EXCEPT !.gone = TRUE]

\* The goroutine of Session.shell: shell.Wait() returns once Shell.done is
\* closed, then s.Exit(0).
WaitExit ==
    /\ Alive
    /\ srv.done
    /\ srv' = SessionExit(srv)
    /\ UNCHANGED <<hostVars, fwd>>

\* The child exits: cmd.Wait() returns and Shell.Exit starts.  Under
\* Shell.mu it sets exiting and takes the clients map, then unlocks.
ExitStart ==
    /\ Alive
    /\ srv.epc = "none"
    /\ ~srv.exiting
    /\ smu = 0
    /\ srv' = [srv EXCEPT !.exiting = TRUE, !.epc = "loop",
                          !.etodo = clients, !.seen = {},
                          !.exitalt = eb.inalt,
                          !.emark = [c \in Conns |-> Len(enq[c])]]
    /\ UNCHANGED <<hostVars, fwd>>

\* Shell.Exit's loop reaches client c: it reads e.inalt without the lock
\* and sends the normal-screen restore sequence if it is set, then
\* checkClose(c).  The map is the live Shell.clients: a client attached
\* meanwhile may or may not be reached.
ExitClient(c) ==
    /\ Alive
    /\ srv.epc = "loop"
    /\ c \in clients \ srv.seen
    /\ ~cmu[c]
    /\ SetMailboxes(IF eb.inalt THEN ClientOutput(Mailboxes, c, nsbrc)
                    ELSE Mailboxes)
    /\ closers' = CheckCloseClient(closers, c)
    /\ srv' = [srv EXCEPT !.seen = @ \cup {c}]
    /\ UNCHANGED <<smu, cmu, clients, pids, primary, rpc, rtodo, rcur, dpc,
                   connClosed, detaching, alive, ppc, ptodo, pchunk, used,
                   written, lastPid, ptyWrite, countReply, eb, fwd>>

\* Shell.Exit after its loop: s.session.Exit(0).
ExitDone ==
    /\ Alive
    /\ srv.epc = "loop"
    /\ (srv.etodo \cap clients) \subseteq srv.seen
    /\ srv' = SessionExit([srv EXCEPT !.epc = "end"])
    /\ UNCHANGED <<hostVars, fwd>>

\* The number of messages of kind k in the mailbox history q.
CountKind(q, k) == Cardinality({i \in 1..Len(q) : q[i].kind = k})

\* The client's forward message for a variable: fmt.Sprintf("%s\000%s").
ForwardMessage(name, value) == name \o <<0>> \o value

\* The forward messages connection c may send: one per variable its client
\* forwards, with the client's socket as value, one with no name and one
\* with no value.
ForwardPayloads(c) ==
    {ForwardMessage(n, <<48 + c>>) : n \in ClientFwdNames \cup {<<>>}}
        \cup {ForwardMessage(<<83>>, <<>>)}

\* The forwardMessage callback's parse of msg: bad without a NUL, with an
\* empty name or with an empty socket.
BadForward(msg) ==
    LET x == IndexByte(msg, 0)
    IN  x <= 0 \/ Slice(msg, x + 1, Len(msg)) = <<>>

ForwardName(msg) == Slice(msg, 0, IndexByte(msg, 0))

ForwardSocket(msg) == Slice(msg, IndexByte(msg, 0) + 1, Len(msg))

\* SetForwarder(name, remote): an error for a name without forwarder, else
\* f.remote = remote.  The result is <<error, the forwarders after it>>.
SetForwarder(fw, name, remote) ==
    IF name \notin FwdNames THEN <<TRUE, fw>>
    ELSE <<FALSE, [fw EXCEPT ![name] = remote]>>

\* The forwardMessage callback of c.  A bad message is answered with a
\* server message; the error SetForwarder returns is dropped.  A client
\* sends forward messages when it has been sent primaryMessage.
RecvForward(c) ==
    \E msg \in ForwardPayloads(c) :
        /\ Alive
        /\ rpc[c] = "idle"
        /\ used.fwds < MaxFwds
        /\ CountKind(enq[c], primaryMessage) > 0
        /\ used' = [used EXCEPT !.fwds = @ + 1]
        /\ IF BadForward(msg)
           THEN fwd' = [fwd EXCEPT !.errors[c] = @ + 1]
           ELSE LET r == SetForwarder(fwd.remote, ForwardName(msg),
                                      ForwardSocket(msg))
                IN  fwd' = [fwd EXCEPT
                              !.remote = r[2],
                              !.setBy = IF r[1] THEN @ ELSE c,
                              !.unknown[c] = IF r[1] THEN @ + 1 ELSE @]
        /\ UNCHANGED <<smu, cmu, clients, pids, primary, buffers, ready, rpc,
                       rtodo, rcur, dpc, closers, connClosed, detaching,
                       alive, ppc, ptodo, pchunk, crashed, enq, written,
                       lastPid, ptyWrite, countReply, eb, srv>>

Init == IdleCodec /\ IdleWriter /\ InitShell

\* Primary election: attachments typing, sending exclusive and hanging up.
Next ==
    \/ \E c \in Conns : Attach(c)
    \/ \E c \in Conns : RecvKeys(c)
    \/ \E c \in Conns : TakeShell(c)
    \/ \E c, oc \in Conns : TakeOther(c, oc)
    \/ \E c \in Conns : PtyWrite(c)
    \/ \E c \in Conns : RecvExclusive(c)
    \/ \E c, oc \in Conns : ExclDetach(c, oc)
    \/ \E c \in Conns : ExclNotice(c)
    \/ \E c \in Conns : PeerHangup(c)
    \/ \E c \in Conns : Detach(c)

Spec == Init /\ [][Next]_vars

\* C2: in every reachable state at most one client of the attached set
\* (Shell.clients) has primary = true.
C2_SinglePrimary == Cardinality({c \in clients : primary[c]}) <= 1

\* Two clients are attached, one is primary and the other was preempted.
C2_Witness ==
    \E c \in clients, oc \in clients :
        /\ c # oc
        /\ primary[c]
        /\ ~primary[oc]
        /\ \E i \in 1..Len(enq[oc]) : enq[oc][i].kind = preemptMessage

\* C4: when the keystrokes of client C are written to the PTY, C is
\* primary and no other attached client is.
C4_WriterIsPrimary ==
    ptyWrite.by # 0 => ptyWrite.primary = {ptyWrite.by}

\* C14: a client is sent exactly one preempt message in the step in which
\* it loses the primary flag and none in any other step, a client is sent
\* exactly one primary message in the step in which it gains the flag and
\* none in any other step, and when the Take of an attached client Y
\* finishes Y is the only attached client with primary = true.
C14_Preemption ==
    [][\A c \in Conns :
          /\ CountKind(enq'[c], preemptMessage)
                 = CountKind(enq[c], preemptMessage)
                     + (IF primary[c] /\ ~primary'[c] THEN 1 ELSE 0)
          /\ CountKind(enq'[c], primaryMessage)
                 = CountKind(enq[c], primaryMessage)
                     + (IF ~primary[c] /\ primary'[c] THEN 1 ELSE 0)
          /\ (rpc[c] \in {"take", "take3"} /\ rpc'[c] = "write" /\ c \in clients)
                 => {o \in clients' : primary'[o]} = {c}]_vars

\* Y has just taken primary from X: X was primary once and has its one
\* preempt message, Y has its one primary message and is about to write.
C14_Witness ==
    \E x \in clients, y \in clients :
        /\ x # y
        /\ rpc[y] = "write"
        /\ primary[y] /\ ~primary[x]
        /\ CountKind(enq[x], primaryMessage) = 1
        /\ CountKind(enq[x], preemptMessage) = 1
        /\ CountKind(enq[y], primaryMessage) = 1
        /\ CountKind(enq[y], preemptMessage) = 0

\* C8: when the exclusive handler of client C finishes, the attached set
\* holds no client but C.
C8_ExclusiveLeavesOnlyC ==
    [][\A c \in Conns :
          (rpc[c] = "excl" /\ rpc'[c] = "idle") => clients' \subseteq {c}]_vars

\* C27: the lock order shell, then at most one client, is never violated:
\* no thread holds the shell mutex together with a client mutex it locked
\* first, and no thread locks a second client mutex while it holds one.
\* (The thread of Take(c) holds c.mu from "Take1" on; smu = c says it
\* holds Shell.mu; a step that takes a client out of rtodo[c] locked that
\* client's mutex.)
C27_LockOrder ==
    /\ [](\A c \in Conns : smu = c => ~cmu[c])
    /\ [][\A c \in Conns :
             (rpc[c] = "take3" /\ rtodo'[c] # rtodo[c]) => ~cmu[c]]_vars

\* C28: every write of client keystrokes to the PTY is made by a thread
\* that holds the shell mutex, so no two attachments are between the
\* return of Take and the return of Shell.Write at the same time.
C28_WriteUnderShellMutex ==
    /\ [][\A c \in Conns :
             (rpc[c] = "write" /\ rpc'[c] = "idle" /\ ptyWrite'.by = c)
                 => smu = c]_vars
    /\ [](Cardinality({c \in Conns : rpc[c] = "write"}) <= 1)

\* Keystrokes and PTY output at once: Take by the attachments, the fan-out
\* by the PTY reader.
NextTake ==
    \/ \E c \in Conns : Attach(c)
    \/ \E c \in Conns : RecvKeys(c)
    \/ \E c \in Conns : TakeShell(c)
    \/ \E c, oc \in Conns : TakeOther(c, oc)
    \/ \E c \in Conns : PtyWrite(c)
    \/ PtyRead
    \/ \E c \in Conns : PtyOutput(c)

SpecTake == Init /\ [][NextTake]_vars

\* A Take or a fan-out has begun and has not returned.
LockingInProgress ==
    \/ \E c \in Conns : rpc[c] \in {"take", "take3"}
    \/ ppc = "fan"

\* C32: no deadlock between primary election and output: under any
\* interleaving of Take(c) with the fan-out of the PTY reader, with Attach
\* or with the Take of another client, every operation gets its locks and
\* returns; so while a Take or a fan-out is under way, one of them can
\* take its next step.
C32_NoDeadlock ==
    LockingInProgress =>
        ENABLED <<\/ \E c \in Conns : TakeShell(c)
                  \/ \E c, oc \in Conns : TakeOther(c, oc)
                  \/ \E c \in Conns : PtyOutput(c)>>_vars

\* The client mailboxes: Attach and the PTY fan-out enqueue, the drain
\* tasks write.
NextMailbox ==
    \/ \E c \in Conns : Attach(c)
    \/ \E c \in Conns : DrainWake(c)
    \/ \E c \in Conns : DrainStep(c)
    \/ PtyRead
    \/ \E c \in Conns : PtyOutput(c)

SpecMailbox == Init /\ [][NextMailbox]_vars

\* The opaque data of a sequence of mailbox items, concatenated.
RECURSIVE ItemData(_)
ItemData(items) ==
    IF items = <<>> THEN <<>>
    ELSE Head(items).data \o ItemData(Tail(items))

\* The opaque data among mailbox items, concatenated.
Opaque(items) ==
    ItemData(SelectSeq(items, LAMBDA it : it.kind = dataMessage))

\* What a step has added to the mailbox history of c.
Enqueued(c) == SubSeq(enq'[c], Len(enq[c]) + 1, Len(enq'[c]))

C5_AttachRepaint ==
    [][\A c \in Conns :
          (rpc[c] = "none" /\ rpc'[c] = "idle") =>
              /\ Len(enq'[c]) >= 2
              /\ enq'[c][1] = [kind |-> startMessage, data |-> <<>>]
              /\ \A i \in 2..Len(enq'[c]) : enq'[c][i].kind = dataMessage
              /\ ItemData(Tail(enq'[c])) =
                    IF eb.inalt
                    THEN cls \o eb.normal \o scasb \o eb.alt
                    ELSE cls \o eb.normal]_vars

\* A client attached while the PTY was in the alternate screen: its third
\* item is the alt-screen enter sequence.
C5_Witness ==
    \E c \in Conns :
        /\ Len(enq[c]) >= 4
        /\ enq[c][1].kind = startMessage
        /\ enq[c][3] = [kind |-> dataMessage, data |-> scasb]
        /\ enq[c][4].data # <<>>

\* The items the drain task of c has written, in the order of the writes.
WrittenItems(c) == [i \in 1..Len(written[c]) |-> written[c][i].item]

NextExcl ==
    \/ \E c \in Conns : DrainWake(c)
    \/ \E c \in Conns : DrainStep(c)
    \/ \E c \in Conns : RecvExclusive(c)
    \/ \E c, oc \in Conns : ExclDetach(c, oc)
    \/ \E c \in Conns : ExclNotice(c)

\* What Attach enqueues while the PTY has written nothing: start and the
\* repaint of an empty screen.
FirstItems ==
    <<[kind |-> startMessage, data |-> <<>>],
      [kind |-> dataMessage, data |-> cls]>>

\* Every connection has attached and its drain task has written the start
\* message and the repaint and waits.
AllAttached ==
    /\ ShellQuiet
    /\ clients = Conns
    /\ rpc = [c \in Conns |-> "idle"]
    /\ dpc = [c \in Conns |-> "wait"]
    /\ enq = [c \in Conns |-> FirstItems]
    /\ written = [c \in Conns |->
                    [i \in 1..Len(FirstItems) |->
                        [item |-> FirstItems[i], open |-> TRUE]]]
    /\ eb = NewEscapeBuffer(0, ShellSequences)
    /\ ebrest = <<>>
    /\ ebsrc = <<>>

InitExcl == IdleCodec /\ IdleWriter /\ AllAttached

SpecExcl == InitExcl /\ [][NextExcl]_vars

\* The positions of the "Detached by client" notices enqueued to c.
NoticesOf(c) == {i \in 1..Len(enq[c]) : IsNotice(enq[c][i])}

\* The server has nothing left to do for client c: no handler runs, no
\* Close of c is under way, the mailbox of c is empty and its drain task
\* has ended or waits with nothing to wake it.
Settled(c) ==
    /\ \A o \in Conns : rpc[o] \in {"none", "idle", "dead"}
    /\ closers[c].start + closers[c].setnil + closers[c].await = 0
    /\ buffers[c] = <<>>
    /\ \/ dpc[c] = "done"
       \/ dpc[c] = "wait" /\ ready[c].tok = 0 /\ ~ready[c].closed

\* C9: a client detached by an exclusive request has the notice written to
\* its connection and the connection then closed: when the server has
\* nothing left to do for it, every notice enqueued to it was written
\* while the connection was open, and the connection is closed.
C9_NoticeBeforeClose ==
    \A c \in Conns :
        (NoticesOf(c) # {} /\ Settled(c)) =>
            /\ \A i \in NoticesOf(c) :
                  /\ i <= Len(written[c])
                  /\ written[c][i].open
            /\ connClosed[c]

\* After an exclusive request: client 1 has sent exclusiveMessage while all
\* connections were attached and typed nothing; the handler has detached
\* the others and sent each its notice, and the drain tasks have written
\* everything.  checkClose(oc) did nothing, so every connection is open
\* and every read loop runs.
AfterExclusive ==
    /\ NothingHeld
    /\ used = [NoneUsed EXCEPT !.excl = 1]
    /\ clients = {1}
    /\ rpc = [c \in Conns |-> "idle"]
    /\ dpc = [c \in Conns |-> "wait"]
    /\ enq = [c \in Conns |->
                IF c = 1 THEN FirstItems
                ELSE Append(FirstItems,
                            [kind |-> dataMessage, data |-> Notice(1)])]
    /\ written = [c \in Conns |->
                    [i \in 1..Len(FirstItems) + (IF c = 1 THEN 0 ELSE 1) |->
                        [item |-> IF i <= Len(FirstItems) THEN FirstItems[i]
                                  ELSE [kind |-> dataMessage,
                                        data |-> Notice(1)],
                         open |-> TRUE]]]
    /\ eb = NewEscapeBuffer(0, ShellSequences)
    /\ ebrest = <<>>
    /\ ebsrc = <<>>

InitDetached == IdleCodec /\ IdleWriter /\ AfterExclusive

\* Keystrokes after an exclusive request, from the requesting client and
\* from the detached ones.
NextDetached ==
    \/ \E c \in Conns : RecvKeys(c)
    \/ \E c \in Conns : TakeShell(c)
    \/ \E c, oc \in Conns : TakeOther(c, oc)
    \/ \E c \in Conns : PtyWrite(c)
    \/ \E c \in Conns : DrainWake(c)
    \/ \E c \in Conns : DrainStep(c)

SpecDetached == InitDetached /\ [][NextDetached]_vars

\* C38: after a client has been detached by an exclusive request none of
\* its later input reaches the shell: no keystrokes of a detached client
\* are written to the PTY, and no Take of a detached client takes the
\* primary flag from the requesting client.
C38_DetachedInputIgnored ==
    /\ [](ptyWrite.by \in clients \cup {0})
    /\ [][\A c \in Conns \ clients, r \in clients :
             ~(primary[r] /\ ~primary'[r] /\ primary'[c])]_vars

\* Client.Close by goroutines of their own, up to its wait for the drain
\* task, while the PTY reader sends output to the clients; all are
\* attached and their drain tasks wait.
NextReady ==
    \/ \E c \in Conns : CallClose(c)
    \/ \E c \in Conns : CloseStart(c)
    \/ \E c \in Conns : CloseSetNil(c)
    \/ PtyRead
    \/ \E c \in Conns : PtyOutput(c)

SpecReady == InitExcl /\ [][NextReady]_vars

NextClose ==
    \/ \E c \in Conns : Attach(c)
    \/ \E c \in Conns : DrainWake(c)
    \/ \E c \in Conns : DrainStep(c)
    \/ \E c \in Conns : CallClose(c)
    \/ \E c \in Conns : CloseStart(c)
    \/ \E c \in Conns : CloseSetNil(c)
    \/ \E c \in Conns : CloseAwait(c)
    \/ \E c \in Conns : ConnEnd(c)
    \/ \E c \in Conns : Detach(c)

SpecClose == Init /\ [][NextClose]_vars

\* The child has switched to the alt screen and written one byte, read by
\* Shell.runout before any connection was accepted.
AltActive ==
    /\ NothingHeld
    /\ used = [NoneUsed EXCEPT !.out = 1]
    /\ NoConns
    /\ eb = EBWrite(NewEscapeBuffer(0, ShellSequences), scasb \o <<98>>)
    /\ ebrest = <<>>
    /\ ebsrc = <<>>

InitAlt == IdleCodec /\ IdleWriter /\ AltActive

\* The PTY read fails while clients are attached and being served.
NextDone ==
    \/ \E c \in Conns : Attach(c)
    \/ \E c \in Conns : DrainWake(c)
    \/ \E c \in Conns : DrainStep(c)
    \/ PtyError
    \/ PtyDone
    \/ \E c \in Conns : DoneSeen(c)
    \/ \E c \in Conns : Detach(c)
    \/ WaitExit

SpecDone == InitAlt /\ [][NextDone]_vars

\* C12: once the PTY reader has closed Shell.done after a read error, the
\* drain task of every client that was attached when the error was found
\* has terminated and has left its mailbox empty.
C12_DoneAfterDrains ==
    srv.done =>
        \A c \in srv.failed : dpc[c] = "done" /\ buffers[c] = <<>>

\* The child exits while clients are attached and being served.
NextExit ==
    \/ \E c \in Conns : Attach(c)
    \/ \E c \in Conns : DrainWake(c)
    \/ \E c \in Conns : DrainStep(c)
    \/ ExitStart
    \/ \E c \in Conns : ExitClient(c)
    \/ ExitDone

SpecExit == InitAlt /\ [][NextExit]_vars

\* C13: when the child has exited with the alt screen active and the
\* server process has exited, every client that was attached when the
\* child exited has had the normal-screen restore sequence, sent to it by
\* Shell.Exit, written to its connection while the connection was open.
C13_RestoreBeforeExit ==
    (srv.gone /\ srv.exitalt) =>
        \A c \in srv.etodo :
            \E i \in 1..Len(written[c]) :
                /\ i > srv.emark[c]
                /\ written[c][i].item = [kind |-> dataMessage, data |-> nsbrc]
                /\ written[c][i].open

\* Clients type, take primary from each other and send forward messages.
NextFwd ==
    \/ \E c \in Conns : Attach(c)
    \/ \E c \in Conns : RecvKeys(c)
    \/ \E c \in Conns : TakeShell(c)
    \/ \E c, oc \in Conns : TakeOther(c, oc)
    \/ \E c \in Conns : PtyWrite(c)
    \/ \E c \in Conns : RecvForward(c)

SpecFwd == Init /\ [][NextFwd]_vars

\* C19: whenever the remote of a forwarder changes, the client whose
\* forward message set it is attached and primary at that moment.
C19_RemoteByPrimary ==
    [][\A n \in FwdNames :
          fwd'.remote[n] # fwd.remote[n] =>
              (fwd'.setBy \in clients /\ primary[fwd'.setBy])]_vars

\* C20: a forward message of client c that names a variable without
\* forwarder makes the server send c one server message, changes no
\* forwarder's remote and detaches nobody.
C20_UnknownForward ==
    [][\A c \in Conns :
          fwd'.unknown[c] > fwd.unknown[c] =>
              /\ fwd'.errors[c] = fwd.errors[c] + 1
              /\ fwd'.remote = fwd.remote
              /\ clients' = clients]_vars


NextCount ==
    \/ \E c \in Conns : Attach(c)
    \/ \E c \in Conns, p \in Pids : RecvTtyname(c, p)
    \/ \E c \in Conns : RecvAskCount(c)
    \/ \E p \in Pids : PidDies(p)
    \/ \E c \in Conns : PeerHangup(c)
    \/ \E c \in Conns : Detach(c)

SpecCount == Init /\ [][NextCount]_vars

\* C10: the reply to askCount is the number of attached clients whose
\* last ttyname named a process that is alive.
C10_LiveCount == countReply.asked => countReply.n = countReply.live

-----------------------------------------------------------------------------
(* SpecSess: the clients of several users choose one session name; each    *)
(* spawns a server when it finds none, the servers publish their address   *)
(* and pid in the session directory, and observers run Check.  One step is *)
(* one function of a process that reads or writes the directory.           *)

\* A step of the session leaves the shell host alone.
SessStep ==
    UNCHANGED <<codecVars, writerVars, ebVars, hostVars, srv, fwd, tty, relay,
                amap, wake, elect>>

\* The server process k exists (kill(pid, 0) succeeds).
ProcAlive(ss, k) == ss.proc[k] \in {"started", "listening", "addrset", "running"}

\* The server process k accepts connections on the address it listens on.
ProcListens(ss, k) == ss.proc[k] \in {"listening", "addrset", "running"}

\* Session.Ping: the pid file is readable and names an existing process.
Ping(ss) == ss.pid # 0 /\ ProcAlive(ss, ss.pid)

\* Session.Remove: os.RemoveAll(s.path)
Remove(ss) == [ss EXCEPT !.dir = FALSE, !.pid = 0, !.addr = 0]

\* Session.Check: false at once when Ping fails; else Command(askCount),
\* whose Dial removes the directory when it finds no addr file in five
\* seconds or the connection is refused.  A server that accepts answers
\* with its count.  The result is <<what Check returns, the directory
\* after it>>.
Check(ss) ==
    IF ~Ping(ss) THEN <<FALSE, ss>>
    ELSE IF ss.addr # 0 /\ ProcListens(ss, ss.addr) THEN <<TRUE, ss>>
    ELSE <<FALSE, Remove(ss)>>

\* main of user u: MakeSession creates the directory, then Ping decides
\* between spawning a server and dialing the one there is.
UserPing(u) ==
    /\ SessStep
    /\ sess.upc[u] = "none"
    /\ sess' = [sess EXCEPT !.dir = TRUE,
                            !.upc[u] = IF Ping(sess) THEN "dial" ELSE "spawn"]

\* Session.Spawn of user u: it exits if Check finds a server, else it goes
\* on to start one.
UserCheck(u) ==
    /\ SessStep
    /\ sess.upc[u] = "spawn"
    /\ LET r == Check(sess)
       IN  sess' = [r[2] EXCEPT !.upc[u] = IF r[1] THEN "exit" ELSE "start"]

\* Session.Spawn of user u: cmd.Start() starts the server process; main
\* then sleeps half a second and dials.
UserStart(u) ==
    /\ SessStep
    /\ sess.upc[u] = "start"
    /\ sess' = [sess EXCEPT !.proc[u] = "started", !.upc[u] = "dial"]

\* Session.Dial of user u: it connects to the address in the addr file, or
\* gives up when the file does not appear or the connection is refused.
UserDial(u) ==
    /\ SessStep
    /\ sess.upc[u] = "dial"
    /\ IF sess.addr # 0 /\ ProcListens(sess, sess.addr)
       THEN sess' = [sess EXCEPT !.upc[u] = "attached", !.at[u] = sess.addr]
       ELSE sess' = [sess EXCEPT !.upc[u] = "exit"]

\* The server process k: MakeSession creates the directory and
\* Session.Listen gets a port of its own from ListenTCP (port 0).
ServerListen(k) ==
    /\ SessStep
    /\ sess.proc[k] = "started"
    /\ sess' = [sess EXCEPT !.dir = TRUE, !.proc[k] = "listening"]

\* Session.Listen: SetAddr writes the addr file; if the directory is gone
\* the write fails and the server removes the directory and exits.
ServerSetAddr(k) ==
    /\ SessStep
    /\ sess.proc[k] = "listening"
    /\ IF sess.dir
       THEN sess' = [sess EXCEPT !.addr = k, !.proc[k] = "addrset"]
       ELSE sess' = [Remove(sess) EXCEPT !.proc[k] = "dead"]

\* Session.Listen: SetPid writes the pid file, likewise.
ServerSetPid(k) ==
    /\ SessStep
    /\ sess.proc[k] = "addrset"
    /\ IF sess.dir
       THEN sess' = [sess EXCEPT !.pid = k, !.proc[k] = "running"]
       ELSE sess' = [Remove(sess) EXCEPT !.proc[k] = "dead"]

\* The server process k ends (its shell exits, or it is killed); exit
\* leaves the session directory as it is.
ServerExits(k) ==
    /\ SessStep
    /\ sess.proc[k] = "running"
    /\ sess.deaths < MaxExits
    /\ sess' = [sess EXCEPT !.proc[k] = "dead", !.deaths = @ + 1]

\* The pid file names a process that no longer exists, or the address in
\* the addr file refuses connections.
DeadSession(ss) ==
    /\ ss.dir
    /\ \/ ss.pid # 0 /\ ~ProcAlive(ss, ss.pid)
       \/ ss.addr # 0 /\ ~ProcListens(ss, ss.addr)

\* An observer (GetSessions) runs Check on the session; it lists the
\* session if Check returns true.
ObserverCheck ==
    /\ SessStep
    /\ sess.checks < MaxChecks
    /\ LET r == Check(sess)
       IN  sess' = [r[2] EXCEPT !.checks = @ + 1, !.ok = r[1]]

NextSess ==
    \/ \E u \in Users : UserPing(u)
    \/ \E u \in Users : UserCheck(u)
    \/ \E u \in Users : UserStart(u)
    \/ \E u \in Users : UserDial(u)
    \/ \E k \in Users : ServerListen(k)
    \/ \E k \in Users : ServerSetAddr(k)
    \/ \E k \in Users : ServerSetPid(k)
    \/ \E k \in Users : ServerExits(k)
    \/ ObserverCheck

InitSess == IdleCodec /\ IdleWriter /\ IdleEB /\ IdleShell

SpecSess == InitSess /\ [][NextSess]_vars

\* The servers that were started have all published their files or ended.
ServersSettled ==
    \A k \in Users : sess.proc[k] \in {"none", "running", "dead"}

\* C17: once the servers that the users spawned have settled, at most one
\* server process listens for the session name, and the addr file and the
\* pid file both name it.
C17_OneLiveServer ==
    ServersSettled =>
        /\ Cardinality({k \in Users : ProcListens(sess, k)}) <= 1
        /\ \A k \in Users : ProcListens(sess, k) => (sess.addr = k /\ sess.pid = k)

\* C18: a Check that runs on a dead session (its pid file names a process
\* that no longer exists, or its addr refuses connections) removes the
\* session directory and returns false, so that GetSessions does not list
\* the session.
C18_DeadRemoved ==
    [][(sess'.checks > sess.checks /\ DeadSession(sess))
          => (~sess'.dir /\ ~sess'.ok)]_vars

-----------------------------------------------------------------------------
(* SpecSize: ttysize messages.  The callback of the attachment calls       *)
(* Take, compares the decoded size with Shell.rows and Shell.cols under    *)
(* Shell.mu and, when they differ, stores it and calls Setsize after       *)
(* unlocking.                                                              *)

MaxSizes == 3

\* encodeSize
encodeSize(rows, cols) ==
    <<(rows \div 256) % 256, rows % 256, (cols \div 256) % 256, cols % 256>>

\* decodeSize
decodeSize(buf) == <<buf[1] * 256 + buf[2], buf[3] * 256 + buf[4]>>

\* The payloads clients send: the size of a new Shell, two other sizes,
\* one of them with a high byte, and a payload of the wrong length.
SizePayloads ==
    { encodeSize(0, 0), encodeSize(24, 80), encodeSize(300, 80), <<0, 24, 0>> }

\* A handler that finds every size new.
SizeSameNever(d, t) == FALSE

\* rows == s.rows && cols == s.cols
SizeSame(d, t) == d[1] = t.rows /\ d[2] = t.cols

\* A step of a ttysize handler after its Take.
SizeStep ==
    /\ ~crashed
    /\ ~srv.gone
    /\ UNCHANGED <<codecVars, writerVars, ebVars, srv, fwd, sess, relay, amap,
                   wake, elect>>

\* The reader of connection c gets a ttysize message and its callback
\* calls Take(client, false), which locks c.mu and returns at once if c is
\* primary.
RecvSize(c) ==
    \E msg \in SizePayloads :
        /\ SizeStep
        /\ rpc[c] = "idle"
        /\ tty.n < MaxSizes
        /\ ~cmu[c]
        /\ tty' = [tty EXCEPT !.n = @ + 1, !.pend[c] = TRUE, !.msg[c] = msg,
                              !.was[c] = <<>>, !.sets[c] = <<>>]
        /\ IF primary[c]
           THEN /\ rpc' = [rpc EXCEPT ![c] = "write"]
                /\ cmu' = cmu
           ELSE /\ rpc' = [rpc EXCEPT ![c] = "take"]
                /\ cmu' = [cmu EXCEPT ![c] = TRUE]
        /\ UNCHANGED <<smu, clients, pids, primary, buffers, ready, rtodo,
                       rcur, dpc, closers, connClosed, detaching, alive, ppc,
                       ptodo, pchunk, crashed, used, enq, written, lastPid,
                       ptyWrite, countReply>>

\* After Take: a payload that is not 4 bytes long gets an error reply;
\* else the handler locks Shell.mu, compares, stores a size that differs
\* and unlocks.
SizeCheck(c) ==
    /\ SizeStep
    /\ rpc[c] = "write"
    /\ tty.pend[c]
    /\ IF Len(tty.msg[c]) # 4
       THEN /\ tty' = [tty EXCEPT !.pend[c] = FALSE, !.errs[c] = @ + 1]
            /\ rpc' = [rpc EXCEPT ![c] = "idle"]
       ELSE /\ smu = 0
            /\ LET d == decodeSize(tty.msg[c])
               IN  IF SizeSame(d, tty)
                   THEN /\ tty' = [tty EXCEPT !.pend[c] = FALSE,
                                              !.was[c] = <<tty.rows, tty.cols>>]
                        /\ rpc' = [rpc EXCEPT ![c] = "idle"]
                   ELSE /\ tty' = [tty EXCEPT !.rows = d[1], !.cols = d[2],
                                              !.was[c] = <<tty.rows, tty.cols>>]
                        /\ rpc' = [rpc EXCEPT ![c] = "setsize"]
    /\ UNCHANGED <<smu, cmu, clients, pids, primary, buffers, ready, rtodo,
                   rcur, dpc, closers, connClosed, detaching, alive, ppc,
                   ptodo, pchunk, crashed, used, enq, written, lastPid,
                   ptyWrite, countReply>>

\* s.Setsize(rows, cols) with the handler's decoded values, no mutex held.
SizeSet(c) ==
    /\ SizeStep
    /\ rpc[c] = "setsize"
    /\ LET d == decodeSize(tty.msg[c])
       IN  tty' = [tty EXCEPT !.pend[c] = FALSE, !.pty = d,
                              !.sets[c] = Append(@, d)]
    /\ rpc' = [rpc EXCEPT ![c] = "idle"]
    /\ UNCHANGED <<smu, cmu, clients, pids, primary, buffers, ready, rtodo,
                   rcur, dpc, closers, connClosed, detaching, alive, ppc,
                   ptodo, pchunk, crashed, used, enq, written, lastPid,
                   ptyWrite, countReply>>

NextSize ==
    \/ \E c \in Conns : Attach(c)
    \/ \E c \in Conns : RecvSize(c)
    \/ \E c \in Conns : TakeShell(c)
    \/ \E c, oc \in Conns : TakeOther(c, oc)
    \/ \E c \in Conns : SizeCheck(c)
    \/ \E c \in Conns : SizeSet(c)

SpecSize == Init /\ [][NextSize]_vars

\* The handler of c has finished a ttysize message of four bytes.
SizeHandled(c) ==
    /\ rpc[c] = "idle"
    /\ ~tty.pend[c]
    /\ Len(tty.msg[c]) = 4

\* C34: after any interleaving of ttysize messages from several
\* attachments has been fully processed, the stored geometry equals the
\* size most recently applied to the PTY by Setsize.
C34_GeometryConsistent ==
    (\A c \in Conns : rpc[c] \in {"none", "idle"} /\ ~tty.pend[c])
        => tty.pty = <<tty.rows, tty.cols>>

\* C30: a ttysize message whose decoded (rows, cols) equal the stored
\* geometry leaves the stored geometry unchanged and issues no window-size
\* update; a message with a different size stores the new (rows, cols) and
\* issues exactly one window-size update with those values.
C30_TtysizeEffect ==
    /\ [][\A c \in Conns :
             (tty.pend[c] /\ rpc[c] = "write" /\ rpc'[c] # "write"
                  /\ Len(tty.msg[c]) = 4)
             => LET d == decodeSize(tty.msg[c])
                IN  IF d = <<tty.rows, tty.cols>>
                    THEN /\ <<tty'.rows, tty'.cols>> = <<tty.rows, tty.cols>>
                         /\ tty'.pty = tty.pty
                         /\ rpc'[c] = "idle"
                    ELSE /\ <<tty'.rows, tty'.cols>> = d
                         /\ rpc'[c] = "setsize"]_vars
    /\ [](\A c \in Conns :
             SizeHandled(c) =>
                 LET d == decodeSize(tty.msg[c])
                 IN  tty.sets[c] = IF tty.was[c] = d THEN <<>> ELSE <<d>>)

\* One handler found its size stored and set nothing, another found a
\* different one stored and set its own once.
C30_Witness ==
    \E c, o \in Conns :
        /\ SizeHandled(c) /\ SizeHandled(o)
        /\ tty.msg[c] = encodeSize(300, 80)
        /\ tty.was[c] = <<300, 80>> /\ tty.sets[c] = <<>>
        /\ tty.was[o] = <<0, 0>> /\ tty.sets[o] = << <<300, 80>> >>

-----------------------------------------------------------------------------
(* SpecRelay: a forwarder.  forwarder.server accepts a connection c and    *)
(* starts a goroutine that reads f.remote and calls session(c, remote),    *)
(* which dials rc, starts io.Copy(c, rc) and io.Copy(rc, c), waits for     *)
(* both, closes rc and returns; the goroutine then closes c.               *)

MaxData == 1   \* bytes each peer sends on a connection

\* A step of the forwarder or of a peer.
RelayStep ==
    UNCHANGED <<codecVars, writerVars, ebVars, hostVars, srv, fwd, sess, tty,
                amap, wake, elect>>

\* SetForwarder: f.remote = remote, under f.mu.
RelaySet ==
    /\ RelayStep
    /\ relay.remote = ""
    /\ relay' = [relay EXCEPT !.remote = "sock"]

\* A client connects; Accept returns c and the goroutine for it reads
\* f.remote under f.mu.
RelayAccept(i) ==
    /\ RelayStep
    /\ relay.s[i].spc = "none"
    /\ \A j \in Relays : j < i => relay.s[j].spc # "none"
    /\ relay' = [relay EXCEPT !.s[i].spc = "start", !.s[i].rem = relay.remote]

\* session: an empty remote or a failed dial returns the error; else the
\* two copies start and session waits for both.
RelayDial(i) ==
    /\ RelayStep
    /\ relay.s[i].spc = "start"
    /\ \E ok \in (IF relay.s[i].rem = "" THEN {FALSE} ELSE BOOLEAN) :
           relay' = IF ok
                    THEN [relay EXCEPT !.s[i].spc = "wait",
                                       !.s[i].dialed = TRUE,
                                       !.s[i].up = "run", !.s[i].down = "run"]
                    ELSE [relay EXCEPT !.s[i].spc = "closec"]

\* The outcomes of a write to a connection: it succeeds, or fails once the
\* peer has closed.
WriteOutcomes(peer) == IF peer = "closed" THEN {"ok", "err"} ELSE {"ok"}

\* io.Copy's read of its source returns 0 bytes and an error: the peer has
\* closed and everything it sent was read.
CopyEnds(src, srcpeer) == src = 0 /\ srcpeer = "closed"

\* A step of io.Copy(rc, c): a read of c and the write to rc.
CopyUp(i) ==
    /\ RelayStep
    /\ relay.s[i].up = "run"
    /\ LET r == relay.s[i]
       IN  IF r.cin > 0
           THEN \E w \in WriteOutcomes(r.rpeer) :
                    relay' = [relay EXCEPT
                                !.s[i].cin = @ - 1,
                                !.s[i].up = IF w = "ok" THEN "run" ELSE "done"]
           ELSE /\ CopyEnds(r.cin, r.cpeer)
                /\ relay' = [relay EXCEPT !.s[i].up = "done"]

\* A step of io.Copy(c, rc): a read of rc and the write to c.
CopyDown(i) ==
    /\ RelayStep
    /\ relay.s[i].down = "run"
    /\ LET r == relay.s[i]
       IN  IF r.rin > 0
           THEN \E w \in WriteOutcomes(r.cpeer) :
                    relay' = [relay EXCEPT
                                !.s[i].rin = @ - 1,
                                !.s[i].down = IF w = "ok" THEN "run" ELSE "done"]
           ELSE /\ CopyEnds(r.rin, r.rpeer)
                /\ relay' = [relay EXCEPT !.s[i].down = "done"]

\* wg.Wait() returns when both copies have ended.
RelayWait(i) ==
    /\ RelayStep
    /\ relay.s[i].spc = "wait"
    /\ relay.s[i].up = "done"
    /\ relay.s[i].down = "done"
    /\ relay' = [relay EXCEPT !.s[i].spc = "closerc"]

\* checkClose(rc), and session returns.
RelayCloseRc(i) ==
    /\ RelayStep
    /\ relay.s[i].spc = "closerc"
    /\ relay' = [relay EXCEPT !.s[i].rclosed = TRUE, !.s[i].spc = "closec"]

\* checkClose(c) after session has returned.
RelayCloseC(i) ==
    /\ RelayStep
    /\ relay.s[i].spc = "closec"
    /\ relay' = [relay EXCEPT !.s[i].cclosed = TRUE, !.s[i].spc = "end"]

\* The client of connection i sends a byte.
RelayClientSends(i) ==
    /\ RelayStep
    /\ relay.s[i].spc # "none"
    /\ relay.s[i].cpeer = "open"
    /\ ~relay.s[i].cclosed
    /\ relay.s[i].csent < MaxData
    /\ relay' = [relay EXCEPT !.s[i].cin = @ + 1, !.s[i].csent = @ + 1]

\* The client of connection i closes its end (or the connection fails).
RelayClientCloses(i) ==
    /\ RelayStep
    /\ relay.s[i].spc # "none"
    /\ relay.s[i].cpeer = "open"
    /\ relay' = [relay EXCEPT !.s[i].cpeer = "closed"]

\* The dialed remote sends a byte.
RelayRemoteSends(i) ==
    /\ RelayStep
    /\ relay.s[i].dialed
    /\ relay.s[i].rpeer = "open"
    /\ ~relay.s[i].rclosed
    /\ relay.s[i].rsent < MaxData
    /\ relay' = [relay EXCEPT !.s[i].rin = @ + 1, !.s[i].rsent = @ + 1]

\* The dialed remote closes its end (or the connection fails).
RelayRemoteCloses(i) ==
    /\ RelayStep
    /\ relay.s[i].dialed
    /\ relay.s[i].rpeer = "open"
    /\ relay' = [relay EXCEPT !.s[i].rpeer = "closed"]

\* The steps the forwarder's goroutines take by themselves.
RelayInternal ==
    \E i \in Relays :
        \/ RelayDial(i) \/ CopyUp(i) \/ CopyDown(i)
        \/ RelayWait(i) \/ RelayCloseRc(i) \/ RelayCloseC(i)

NextRelay ==
    \/ RelaySet
    \/ \E i \in Relays : RelayAccept(i)
    \/ \E i \in Relays : RelayDial(i)
    \/ \E i \in Relays : CopyUp(i)
    \/ \E i \in Relays : CopyDown(i)
    \/ \E i \in Relays : RelayWait(i)
    \/ \E i \in Relays : RelayCloseRc(i)
    \/ \E i \in Relays : RelayCloseC(i)
    \/ \E i \in Relays : RelayClientSends(i)
    \/ \E i \in Relays : RelayClientCloses(i)
    \/ \E i \in Relays : RelayRemoteSends(i)
    \/ \E i \in Relays : RelayRemoteCloses(i)

InitRelay == IdleCodec /\ IdleWriter /\ IdleEB /\ IdleShell

SpecRelay == InitRelay /\ [][NextRelay]_vars

\* One side of the relayed connection i has closed or failed.
RelaySideClosed(i) ==
    /\ relay.s[i].dialed
    /\ relay.s[i].cpeer = "closed" \/ relay.s[i].rpeer = "closed"

\* C21: once either side of a relayed connection has closed or failed, the
\* relay terminates and closes both c and the remote connection without
\* the other side closing or sending anything: when the forwarder's
\* goroutines have no step left to take, both connections are closed.
C21_RelayTerminates ==
    \A i \in Relays :
        (RelaySideClosed(i) /\ ~ENABLED RelayInternal)
            => (relay.s[i].cclosed /\ relay.s[i].rclosed)

-----------------------------------------------------------------------------
(* SpecAnymap: an Anymap (anymap/anymap.go).  Values are sent to C; the    *)
(* watch goroutine stores each and starts one goroutine per update         *)
(* channel to deliver it; Get and Next make an update channel and range    *)
(* over its ch.  A section under am.mu is one step.                        *)

MaxVals == 2   \* values sent to C

\* A step of the Anymap, of a caller or of a sender.
AmStep ==
    UNCHANGED <<codecVars, writerVars, ebVars, hostVars, srv, fwd, sess, tty,
                relay, wake, elect>>

\* newUpdateChan for caller u wanting type t, and the caller enters
\* uc.next.
NewUpdateChan(am, u, t) ==
    [am EXCEPT !.chans = @ \cup {u}, !.done[u] = "open",
               !.call[u] = "next", !.want[u] = t]

\* Get(a): the current value of the type, or an update channel to wait on.
AmGet(u) ==
    \E t \in Types :
        /\ AmStep
        /\ amap.call[u] = "none"
        /\ amap' = IF t \in amap.values
                   THEN [amap EXCEPT !.call[u] = "true", !.want[u] = t]
                   ELSE NewUpdateChan(amap, u, t)

\* Next(a): always an update channel.
AmNext(u) ==
    \E t \in Types :
        /\ AmStep
        /\ amap.call[u] = "none"
        /\ amap' = NewUpdateChan(amap, u, t)

\* The delivery goroutines watch starts for value number n of type t: one
\* per update channel in updateChans, each with the done field it read.
Deliveries(am, n, t) ==
    {[id |-> n, uc |-> u, v |-> t, done |-> am.done[u]] : u \in am.chans}

\* A value of type t is sent to C and watch takes it: under am.mu it
\* stores the value and starts the deliveries.
AmValue ==
    \E t \in Types :
        /\ AmStep
        /\ ~amap.closed
        /\ amap.wpc = "recv"
        /\ amap.n < MaxVals
        /\ amap' = [amap EXCEPT !.n = @ + 1, !.values = @ \cup {t},
                                !.gs = @ \cup Deliveries(amap, amap.n + 1, t)]

\* close(am.C)
AmClose ==
    /\ AmStep
    /\ ~amap.closed
    /\ amap' = [amap EXCEPT !.closed = TRUE]

\* watch's range over C ends: it takes the update channels under am.mu.
WatchEnd ==
    /\ AmStep
    /\ amap.closed
    /\ amap.wpc = "recv"
    /\ amap' = [amap EXCEPT !.wpc = IF amap.chans = {} THEN "end" ELSE "closing",
                            !.wtodo = amap.chans]

\* watch calls uc.close() for one of them: shutdown closes done and sets
\* the field to nil, then the channel is deleted from updateChans.
WatchClose(u) ==
    /\ AmStep
    /\ amap.wpc = "closing"
    /\ u \in amap.wtodo
    /\ amap' = [amap EXCEPT !.done[u] = "nil", !.chans = @ \ {u},
                            !.wtodo = @ \ {u},
                            !.wpc = IF amap.wtodo = {u} THEN "end" ELSE "closing"]

\* The select of the delivery goroutine of value n for update channel u
\* takes uc.ch <- v: the caller ranging
\* over uc.ch gets the value, returns true if it has the type wanted
\* (starting a goroutine that runs uc.close()) and goes on otherwise.
GoSend(n, u) ==
    \E g \in amap.gs :
        /\ AmStep
        /\ g.id = n /\ g.uc = u
        /\ amap.call[u] = "next"
        /\ amap' = IF g.v = amap.want[u]
                   THEN [amap EXCEPT !.gs = @ \ {g}, !.call[u] = "true",
                                     !.closing[u] = @ + 1]
                   ELSE [amap EXCEPT !.gs = @ \ {g}]

\* The select of a delivery goroutine takes <-done, which needs the done
\* channel it read to be a channel and to have been closed; the goroutine
\* runs uc.close() and ends.
GoDone(n, u) ==
    \E g \in amap.gs :
        /\ AmStep
        /\ g.id = n /\ g.uc = u
        /\ g.done = "open"
        /\ amap.done[u] = "nil"
        /\ amap' = [amap EXCEPT !.gs = @ \ {g}, !.chans = @ \ {u}]

\* uc.close() started by next's defer: shutdown.
CloserShutdown(u) ==
    /\ AmStep
    /\ amap.closing[u] > 0
    /\ amap' = [amap EXCEPT !.closing[u] = @ - 1, !.deleting[u] = @ + 1,
                            !.done[u] = "nil"]

\* uc.close() started by next's defer: the delete under am.mu.
CloserDelete(u) ==
    /\ AmStep
    /\ amap.deleting[u] > 0
    /\ amap' = [amap EXCEPT !.deleting[u] = @ - 1, !.chans = @ \ {u}]

\* The steps the Anymap's goroutines take by themselves.
AmInternal ==
    \/ WatchEnd
    \/ \E u \in UCs : WatchClose(u) \/ CloserShutdown(u) \/ CloserDelete(u)
    \/ \E n \in 1..MaxVals, u \in UCs : GoSend(n, u) \/ GoDone(n, u)

NextAnymap ==
    \/ \E u \in UCs : AmGet(u)
    \/ \E u \in UCs : AmNext(u)
    \/ AmValue
    \/ AmClose
    \/ WatchEnd
    \/ \E u \in UCs : WatchClose(u)
    \/ \E n \in 1..MaxVals, u \in UCs : GoSend(n, u)
    \/ \E n \in 1..MaxVals, u \in UCs : GoDone(n, u)
    \/ \E u \in UCs : CloserShutdown(u)
    \/ \E u \in UCs : CloserDelete(u)

InitAnymap == IdleCodec /\ IdleWriter /\ IdleEB /\ IdleShell

SpecAnymap == InitAnymap /\ [][NextAnymap]_vars

\* C25: a caller blocked in Get or Next returns (false) after C is closed
\* without a value of its type being sent, and does not wait for ever:
\* with C closed and no step left for the Anymap's goroutines, no caller
\* is still inside next.
C25_GetReturnsOnClose ==
    (amap.closed /\ ~ENABLED AmInternal)
        => \A u \in UCs : amap.call[u] # "next"

\* C26: every delivery goroutine ends once its update channel has been
\* shut down or C has been closed, so that the count of goroutines in
\* flight returns to 0: with no step left for the Anymap's goroutines,
\* every delivery goroutine that remains belongs to an update channel that
\* was not shut down, and C is open.
C26_NoLeakedDeliveries ==
    ~ENABLED AmInternal =>
        \A g \in amap.gs : amap.done[g.uc] = "open" /\ ~amap.closed

-----------------------------------------------------------------------------
(* SpecWake: the mailbox of a client and its ready channel.  Client.Send   *)
(* appends to c.buffers under c.mu, unlocks, and then makes a non-blocking *)
(* send on c.ready; the drain task (Client.runout) receives from c.ready   *)
(* and empties the mailbox.  Several callers send at once.  No Close: the  *)
(* server never calls Client.Close (see IsCloser).                         *)

MaxWake == 3    \* calls of Client.Send, over all clients

\* A step of a sender.
WakeStep ==
    /\ ~crashed
    /\ ~srv.gone
    /\ UNCHANGED <<codecVars, writerVars, ebVars, srv, fwd, sess, tty, relay,
                   amap, elect>>

\* A send that never leaves a token.
OfferDrops(ch) == ch

\* select { case c.ready <- struct{}{}: default: } on the channel of
\* capacity 1: a token is left unless one is there (or the channel is nil).
Offer(ch) == IF ch.nil \/ ch.tok = 1 THEN ch ELSE [ch EXCEPT !.tok = 1]

\* Client.Send(kind, buf), first half: under c.mu the item is appended to
\* c.buffers.
SendAppend(c) ==
    /\ WakeStep
    /\ c \in clients
    /\ wake.n < MaxWake
    /\ ~cmu[c]
    /\ LET item == [kind |-> dataMessage, data |-> <<97 + wake.n>>]
       IN  /\ buffers' = [buffers EXCEPT ![c] = Append(@, item)]
           /\ enq' = [enq EXCEPT ![c] = Append(@, item)]
    /\ wake' = [wake EXCEPT !.n = @ + 1, !.pend[c] = @ + 1]
    /\ UNCHANGED <<smu, cmu, clients, pids, primary, ready, rpc, rtodo, rcur,
                   dpc, closers, connClosed, detaching, alive, ppc, ptodo,
                   pchunk, crashed, used, written, lastPid, ptyWrite,
                   countReply>>

\* Client.Send, second half: after the unlock, the non-blocking send on
\* c.ready (a send on a closed channel panics).
SendToken(c) ==
    /\ WakeStep
    /\ wake.pend[c] > 0
    /\ wake' = [wake EXCEPT !.pend[c] = @ - 1]
    /\ IF ready[c].closed /\ ~ready[c].nil
       THEN crashed' = TRUE /\ ready' = ready
       ELSE crashed' = crashed /\ ready' = [ready EXCEPT ![c] = Offer(@)]
    /\ UNCHANGED <<smu, cmu, clients, pids, primary, buffers, rpc, rtodo,
                   rcur, dpc, closers, connClosed, detaching, alive, ppc,
                   ptodo, pchunk, used, enq, written, lastPid, ptyWrite,
                   countReply>>

NextWake ==
    \/ \E c \in Conns : SendAppend(c)
    \/ \E c \in Conns : SendToken(c)
    \/ \E c \in Conns : DrainWake(c)
    \/ \E c \in Conns : DrainStep(c)

SpecWake == InitExcl /\ [][NextWake]_vars

\* The statement without the senders: whenever the mailbox is non-empty
\* and the drain task waits, the ready channel holds a token.
C36_TokenWheneverWaiting ==
    \A c \in Conns :
        (buffers[c] # <<>> /\ dpc[c] = "wait") => ready[c].tok = 1

\* C36: no lost wake-up in the client mailbox: whenever the mailbox is
\* non-empty, the drain task waits and no Send is between its append and
\* its send on the ready channel, the channel holds a token; and when
\* neither a sender nor the drain task of a client has a step left, the
\* drain task has written every item enqueued.
C36_NoLostWakeup ==
    \A c \in Conns :
        /\ (buffers[c] # <<>> /\ dpc[c] = "wait" /\ wake.pend[c] = 0)
               => ready[c].tok = 1
        /\ ~ENABLED <<SendToken(c) \/ DrainWake(c) \/ DrainStep(c)>>_vars
               => WrittenItems(c) = enq[c]

\* The drain task of a client has written an item of a Send and waits
\* again, and the next item is in the mailbox with its token.
C36_Witness ==
    \E c \in Conns :
        /\ Len(written[c]) > Len(FirstItems)
        /\ buffers[c] # <<>>
        /\ dpc[c] = "wait"
        /\ wake.pend[c] = 0
        /\ ready[c].tok = 1

-----------------------------------------------------------------------------
(* SpecChunk: an EscapeBuffer with the sequences of the repository's test, *)
(* whose callbacks count and return true, and the test's capacity; a       *)
(* byte stream is written in chunks cut at any positions.                  *)

ChunkCap == 64
MaxStream == 6

xyw   == <<120, 121, 119>>
xyzzy == <<120, 121, 122, 122, 121>>

\* The sequence sets of the test
ChunkSeqs ==
    { << [seq |-> xyz, cb |-> "keep"] >>,
      << [seq |-> xyw, cb |-> "keep"], [seq |-> xyzzy, cb |-> "keep"] >> }

\* The streams: the inputs of the test, and every string of w, x, y, z of
\* up to MaxStream bytes.
ChunkStreams ==
    { <<97, 98, 99>> \o xyz \o xyz \o <<100>> \o xyz \o <<101, 102>>,
      <<97>> \o xyw \o <<97>> \o xyzzy \o <<120>> }
    \cup UNION { [1..n -> 119..122] : n \in 0..MaxStream }

InitChunk ==
    /\ ebsrc \in ChunkStreams
    /\ ebrest = ebsrc
    /\ \E seqs \in ChunkSeqs : eb = NewEscapeBuffer(ChunkCap, seqs)

ChunkInit == IdleCodec /\ IdleWriter /\ InitChunk /\ IdleShell

SpecChunk == ChunkInit /\ [][NextEB]_vars

\* The whole stream written by one Write call to a new buffer with the
\* sequences of e.
OneChunk(e, stream) == EBWrite(NewEscapeBuffer(ChunkCap, e.seqs), stream)

-----------------------------------------------------------------------------
(* SpecElect: primary election among attached clients and the messages it  *)
(* sends.  Take(c) makes c primary and sends it primaryMessage; the client *)
(* answers every primaryMessage with a ttysize message, and the server's   *)
(* handler of a ttysize message calls Take again.  Clients type a bounded  *)
(* number of keystroke chunks; the messages of either direction are        *)
(* handled in time (weak fairness on the client's and the server's         *)
(* handler: each runs in a goroutine or process the scheduler runs).       *)

MaxTyped == 3    \* chunks of keystrokes, over all clients

\* A step of the election.
ElectStep ==
    UNCHANGED <<codecVars, writerVars, ebVars, hostVars, srv, fwd, sess, tty,
                relay, amap, wake>>

\* The size of client c's terminal (pty.Getsize(os.Stdin))
TermSize(c) == <<23 + c, 80>>

\* Shell.Take(c, _): nothing if c is primary; else every other attached
\* client loses the flag (and is sent preemptMessage if it had it), c gets
\* it and is sent primaryMessage.
ElectTake(el, c) ==
    IF el.prim[c] THEN el
    ELSE [el EXCEPT !.prim = [o \in Conns |->
                                 IF o = c THEN TRUE
                                 ELSE IF o \in clients THEN FALSE
                                 ELSE el.prim[o]],
                    !.toClient[c] = @ + 1]

\* The read loop of c's attachment reads keystrokes: Take(c, true), then
\* Shell.Write.
ElectKeys(c) ==
    /\ ElectStep
    /\ elect.keys < MaxTyped
    /\ elect' = [ElectTake(elect, c) EXCEPT !.keys = @ + 1]

\* Client c handles a primaryMessage: it sends the size of its terminal
\* in a ttysize message.
ElectAnswer(c) ==
    /\ ElectStep
    /\ elect.toClient[c] > 0
    /\ elect' = [elect EXCEPT !.toClient[c] = @ - 1, !.toServer[c] = @ + 1]

\* The server handles a ttysize message of c: Take(c, false), then the
\* size is stored and set on the PTY if it differs from the stored one.
ElectSize(c) ==
    /\ ElectStep
    /\ elect.toServer[c] > 0
    /\ LET e1 == [ElectTake(elect, c) EXCEPT !.toServer[c] = @ - 1]
           d  == decodeSize(encodeSize(TermSize(c)[1], TermSize(c)[2]))
       IN  elect' = IF d = <<e1.rows, e1.cols>> THEN e1
                    ELSE [e1 EXCEPT !.rows = d[1], !.cols = d[2], !.pty = d]

NextElect ==
    \/ \E c \in Conns : ElectKeys(c)
    \/ \E c \in Conns : ElectAnswer(c)
    \/ \E c \in Conns : ElectSize(c)

SpecElect ==
    /\ InitExcl
    /\ [][NextElect]_vars
    /\ \A c \in Conns : WF_vars(ElectAnswer(c)) /\ WF_vars(ElectSize(c))

\* C37: primary election stabilizes: once the clients have stopped typing
\* only finitely many primary and preempt messages are sent, so from some
\* point on the primary flags no longer change.
C37_ElectionStabilizes == <>[][elect'.prim = elect.prim]_vars

=============================================================================
